---------------------------- MODULE Spec2Model ----------------------------
(***************************************************************************)
(* A model of the CV parsing engine of the AI mock-interview application   *)
(* (src/utils/cv_parser.py).                                               *)
(*                                                                         *)
(* A Python str is a sequence of characters; a character is a one-letter   *)
(* TLA+ string, except the bullet U+2022 and the en dash U+2013, written   *)
(* "BULLET" and "ENDASH".  A regular                                       *)
(* expression of the source is a tree of nodes, matched by Ends with the   *)
(* backtracking order of Python's re module (leftmost start, alternatives  *)
(* in order, greedy repetitions longest first, lazy ones shortest first).  *)
(***************************************************************************)
EXTENDS Naturals, Sequences, FiniteSets, TLC

----------------------------------------------------------------------------
(* Characters *)

NL == "\n"

Bullet == "BULLET"

\* the en dash U+2013
EnDash == "ENDASH"

Upper ==
    {"A","B","C","D","E","F","G","H","I","J","K","L","M",
     "N","O","P","Q","R","S","T","U","V","W","X","Y","Z"}

Lower ==
    {"a","b","c","d","e","f","g","h","i","j","k","l","m",
     "n","o","p","q","r","s","t","u","v","w","x","y","z"}

Digit == {"0","1","2","3","4","5","6","7","8","9"}

\* str.strip() and the class \s: white space
Space == {" ", "\t", "\n", "\r"}

\* the class \w
Word == Upper \cup Lower \cup Digit \cup {"_"}

\* The characters of the model, in code point order (the order of str comparison).
CodeOrder ==
    <<"\t", "\n", "\r", " ", "%", "'", "(", ")", "+", ",", "-", ".", "/",
      "0","1","2","3","4","5","6","7","8","9", ":", "@",
      "A","B","C","D","E","F","G","H","I","J","K","L","M",
      "N","O","P","Q","R","S","T","U","V","W","X","Y","Z", "_",
      "a","b","c","d","e","f","g","h","i","j","k","l","m",
      "n","o","p","q","r","s","t","u","v","w","x","y","z", "|", "ENDASH", "BULLET">>

Ord(c) == CHOOSE i \in 1..Len(CodeOrder) : CodeOrder[i] = c

UpperOrder ==
    <<"A","B","C","D","E","F","G","H","I","J","K","L","M",
      "N","O","P","Q","R","S","T","U","V","W","X","Y","Z">>

LowerOrder ==
    <<"a","b","c","d","e","f","g","h","i","j","k","l","m",
      "n","o","p","q","r","s","t","u","v","w","x","y","z">>

\* str.lower(), one character
LowerChar(c) ==
    IF c \in Upper
    THEN LowerOrder[CHOOSE i \in 1..26 : UpperOrder[i] = c]
    ELSE c

\* str.upper(), one character
UpperChar(c) ==
    IF c \in Lower
    THEN UpperOrder[CHOOSE i \in 1..26 : LowerOrder[i] = c]
    ELSE c

\* str.lower()
StrLower(s) == [i \in 1..Len(s) |-> LowerChar(s[i])]

RECURSIVE LStrip(_)
LStrip(s) ==
    IF s # <<>> /\ Head(s) \in Space THEN LStrip(Tail(s)) ELSE s

RECURSIVE RStrip(_)
RStrip(s) ==
    IF s # <<>> /\ s[Len(s)] \in Space THEN RStrip(SubSeq(s, 1, Len(s) - 1)) ELSE s

\* str.strip()
Strip(s) == RStrip(LStrip(s))

\* str comparison a < b: lexicographic by code point
RECURSIVE StrLess(_, _)
StrLess(a, b) ==
    IF b = <<>> THEN FALSE
    ELSE IF a = <<>> THEN TRUE
    ELSE IF Head(a) = Head(b) THEN StrLess(Tail(a), Tail(b))
    ELSE Ord(Head(a)) < Ord(Head(b))

\* sorted(list(S)) for a set of str
RECURSIVE Sorted(_)
Sorted(S) ==
    IF S = {} THEN <<>>
    ELSE LET m == CHOOSE x \in S : \A y \in S \ {x} : StrLess(x, y)
         IN  <<m>> \o Sorted(S \ {m})

\* sep.join(parts)
RECURSIVE Join(_, _)
Join(sep, parts) ==
    IF parts = <<>> THEN <<>>
    ELSE IF Len(parts) = 1 THEN parts[1]
    ELSE parts[1] \o sep \o Join(sep, Tail(parts))

----------------------------------------------------------------------------
(* Regular expressions: the nodes *)

ReSet(C) == [t |-> "set", c |-> C]

ReNot(C) == [t |-> "nset", c |-> C]

\* . without re.DOTALL
ReDot == [t |-> "nset", c |-> {NL}]

\* . under re.DOTALL
ReAny == [t |-> "nset", c |-> {}]

ReCat(rs) == [t |-> "cat", rs |-> rs]

ReAlt(rs) == [t |-> "alt", rs |-> rs]

\* r{lo,hi}, greedy or lazy (r{lo,hi}?)
ReRep(r, lo, hi, greedy) ==
    [t |-> "rep", r |-> r, lo |-> lo, hi |-> hi, inf |-> FALSE, greedy |-> greedy]

\* r{lo,}, greedy or lazy
ReRepInf(r, lo, greedy) ==
    [t |-> "rep", r |-> r, lo |-> lo, hi |-> 0, inf |-> TRUE, greedy |-> greedy]

ReStar(r) == ReRepInf(r, 0, TRUE)

RePlus(r) == ReRepInf(r, 1, TRUE)

ReOpt(r) == ReRep(r, 0, 1, TRUE)

ReLazyStar(r) == ReRepInf(r, 0, FALSE)

\* (?=r)
ReAhead(r) == [t |-> "ahead", r |-> r]

\* (?<=r), r of fixed width w
ReBehind(r, w) == [t |-> "behind", r |-> r, w |-> w]

\* ^ without re.MULTILINE
ReBos == [t |-> "bos"]

\* $ without re.MULTILINE: at the end, or before a final line break
ReEos == [t |-> "eos"]

\* \Z
ReEoz == [t |-> "eoz"]

\* \b
ReWb == [t |-> "wb"]

\* a literal word
ReLit(w) == [t |-> "lit", w |-> w, ci |-> FALSE]

\* a literal word under (?i)
ReLitI(w) == [t |-> "lit", w |-> w, ci |-> TRUE]

----------------------------------------------------------------------------
(* Regular expressions: matching *)

\* xs, then the elements of ys not yet in it (a first, preferred, way to reach
\* a position hides the later ones)
Merge(xs, ys) ==
    xs \o SelectSeq(ys, LAMBDA y : \A k \in 1..Len(xs) : xs[k] # y)

IsWordAt(s, i) == i >= 1 /\ i <= Len(s) /\ s[i] \in Word

\* one character against a class node
CharOk(r, c) == IF r.t = "set" THEN c \in r.c ELSE c \notin r.c

\* the literal word w at position i of s
LitAt(w, ci, s, i) ==
    /\ i + Len(w) - 1 <= Len(s)
    /\ \A k \in 1..Len(w) :
          IF ci THEN LowerChar(s[i + k - 1]) = LowerChar(w[k]) ELSE s[i + k - 1] = w[k]

\* how many characters from position i on are of the class r
Run(r, s, i) ==
    LET lens == {m \in 0..(Len(s) + 1 - i) : \A j \in i..(i + m - 1) : CharOk(r.r, s[j])}
    IN  CHOOSE m \in lens : \A k \in lens : k <= m

\* a repetition of a character class: its ends, longest first when greedy
CharRepEnds(r, s, i) ==
    LET run == Run(r, s, i)
        top == IF ~r.inf /\ r.hi < run THEN r.hi ELSE run
    IN  IF top < r.lo THEN <<>>
        ELSE [k \in 1..(top - r.lo + 1) |->
                 IF r.greedy THEN i + top - (k - 1) ELSE i + r.lo + (k - 1)]

RECURSIVE Ends(_, _, _)
RECURSIVE EndsFromAll(_, _, _)
RECURSIVE CatEnds(_, _, _)
RECURSIVE AltEnds(_, _, _)
RECURSIVE RepEnds(_, _, _, _)
RECURSIVE RepFromAll(_, _, _, _)

\* The positions where a match of r that starts at position i of s can end,
\* in the order in which backtracking tries them.  Position i is before s[i].
Ends(r, s, i) ==
    CASE r.t \in {"set", "nset"} ->
             IF i <= Len(s) /\ CharOk(r, s[i]) THEN <<i + 1>> ELSE <<>>
      [] r.t = "lit"    -> IF LitAt(r.w, r.ci, s, i) THEN <<i + Len(r.w)>> ELSE <<>>
      [] r.t = "cat"    -> CatEnds(r.rs, s, <<i>>)
      [] r.t = "alt"    -> AltEnds(r.rs, s, i)
      [] r.t = "rep"    -> IF r.r.t \in {"set", "nset"} THEN CharRepEnds(r, s, i)
                           ELSE RepEnds(r, s, i, 0)
      [] r.t = "ahead"  -> IF Ends(r.r, s, i) # <<>> THEN <<i>> ELSE <<>>
      [] r.t = "behind" -> IF i > r.w /\ (\E k \in 1..Len(Ends(r.r, s, i - r.w)) :
                                             Ends(r.r, s, i - r.w)[k] = i)
                           THEN <<i>> ELSE <<>>
      [] r.t = "bos"    -> IF i = 1 THEN <<i>> ELSE <<>>
      [] r.t = "eos"    -> IF i = Len(s) + 1 \/ (i = Len(s) /\ s[i] = NL)
                           THEN <<i>> ELSE <<>>
      [] r.t = "eoz"    -> IF i = Len(s) + 1 THEN <<i>> ELSE <<>>
      [] r.t = "wb"     -> IF IsWordAt(s, i - 1) # IsWordAt(s, i) THEN <<i>> ELSE <<>>

\* the ends of r from each of the positions ps, in order
EndsFromAll(r, s, ps) ==
    IF ps = <<>> THEN <<>>
    ELSE IF Len(ps) = 1 THEN Ends(r, s, ps[1])
    ELSE LET h == Len(ps) \div 2
         IN  Merge(EndsFromAll(r, s, SubSeq(ps, 1, h)),
                   EndsFromAll(r, s, SubSeq(ps, h + 1, Len(ps))))

CatEnds(rs, s, ps) ==
    IF rs = <<>> \/ ps = <<>> THEN ps
    ELSE CatEnds(Tail(rs), s, EndsFromAll(Head(rs), s, ps))

AltEnds(rs, s, i) ==
    IF rs = <<>> THEN <<>>
    ELSE Merge(Ends(Head(rs), s, i), AltEnds(Tail(rs), s, i))

\* r is a repetition of which n rounds are done
RepEnds(r, s, i, n) ==
    LET once == IF ~r.inf /\ n >= r.hi THEN <<>>
                ELSE SelectSeq(Ends(r.r, s, i), LAMBDA e : e > i)
        more == RepFromAll(r, s, once, n + 1)
        stop == IF n >= r.lo THEN <<i>> ELSE <<>>
    IN  IF r.greedy THEN Merge(more, stop) ELSE Merge(stop, more)

RepFromAll(r, s, ps, n) ==
    IF ps = <<>> THEN <<>>
    ELSE IF Len(ps) = 1 THEN RepEnds(r, s, ps[1], n)
    ELSE LET h == Len(ps) \div 2
         IN  Merge(RepFromAll(r, s, SubSeq(ps, 1, h), n),
                   RepFromAll(r, s, SubSeq(ps, h + 1, Len(ps)), n))

NoMatch == [start |-> 0, end |-> 0]

\* the match of r that starts at position p
MatchAt(r, s, p) == [start |-> p, end |-> Ends(r, s, p)[1]]

\* the match at the least of the positions `hits`, where r matches
FirstMatch(r, s, hits) ==
    IF hits = {} THEN NoMatch
    ELSE MatchAt(r, s, CHOOSE i \in hits : \A j \in hits : i <= j)

\* re.search from position `from` on: the leftmost match, as the positions
\* before its first character and after its last; NoMatch when there is none
SearchFrom(r, s, from) ==
    FirstMatch(r, s, {i \in from..(Len(s) + 1) : Ends(r, s, i) # <<>>})

\* re.search(r, s)
Search(r, s) == SearchFrom(r, s, 1)

\* match.group(0)
Group0(s, m) == SubSeq(s, m.start, m.end - 1)

\* m.group(0) if m else ""
Group0OrEmpty(s, m) == IF m # NoMatch THEN Group0(s, m) ELSE <<>>

RECURSIVE SplitFrom(_, _, _)
RECURSIVE SplitAt(_, _, _, _)

\* re.split(r, s) for an r without groups that matches no empty string: the
\* pieces from position `from` on
SplitFrom(r, s, from) == SplitAt(r, s, from, SearchFrom(r, s, from))

\* the pieces from position `from` on, m being the next match
SplitAt(r, s, from, m) ==
    IF m = NoMatch THEN <<SubSeq(s, from, Len(s))>>
    ELSE <<SubSeq(s, from, m.start - 1)>> \o SplitFrom(r, s, m.end)

Split(r, s) == SplitFrom(r, s, 1)

RECURSIVE SubFrom(_, _, _)
RECURSIVE SubAt(_, _, _, _)

\* re.sub(r, '', s) for an r that matches no empty string: what is left of s
\* from position `from` on
SubFrom(r, s, from) == SubAt(r, s, from, SearchFrom(r, s, from))

\* what is left from position `from` on, m being the next match
SubAt(r, s, from, m) ==
    IF m = NoMatch THEN SubSeq(s, from, Len(s))
    ELSE SubSeq(s, from, m.start - 1) \o SubFrom(r, s, m.end)

Sub(r, s) == SubFrom(r, s, 1)

----------------------------------------------------------------------------
(* Sections: (?i)(HEADING|...)[:\n](.*?)(?:\n\n|\Z) under re.DOTALL *)

\* the run (.*?) up to the first blank line or the end of the text
SectionBody == ReCat(<<ReLazyStar(ReAny), ReAhead(ReAlt(<<ReLit(<<NL, NL>>), ReEoz>>))>>)

NoSection == [found |-> FALSE, text |-> <<>>]

\* group(2) of the match m: from the end of the heading and its colon or line
\* break to the end of the body
SectionOf(text, m) ==
    IF m = NoMatch THEN NoSection
    ELSE [found |-> TRUE,
          text  |-> SubSeq(text, m.end, Ends(SectionBody, text, m.end)[1] - 1)]

\* re.search(pattern, text, re.DOTALL) and its group(2).  The body and the
\* closing (?:\n\n|\Z) match after every heading, so the match is the leftmost
\* heading that a colon or a line break follows.
SectionSearch(headings, text) ==
    SectionOf(text, Search(ReCat(<<ReAlt(headings), ReSet({":", NL})>>), text))

SkillsHeadings ==
    <<ReLitI(<<"S","K","I","L","L","S">>),
      ReLitI(<<"T","E","C","H","N","I","C","A","L"," ","S","K","I","L","L","S">>),
      ReLitI(<<"C","O","R","E"," ","C","O","M","P","E","T","E","N","C","I","E","S">>),
      ReLitI(<<"E","X","P","E","R","T","I","S","E">>),
      ReLitI(<<"Q","U","A","L","I","F","I","C","A","T","I","O","N","S">>)>>

ToolsHeadings ==
    <<ReLitI(<<"T","E","C","H","N","O","L","O","G","I","E","S">>),
      ReLitI(<<"T","O","O","L","S">>),
      ReLitI(<<"S","O","F","T","W","A","R","E">>)>>

skills_patterns == <<SkillsHeadings, ToolsHeadings>>

EducationHeadings ==
    <<ReLitI(<<"E","D","U","C","A","T","I","O","N">>),
      ReLitI(<<"A","C","A","D","E","M","I","C">>),
      ReLitI(<<"Q","U","A","L","I","F","I","C","A","T","I","O","N","S">>)>>

ExperienceHeadings ==
    <<ReLitI(<<"E","X","P","E","R","I","E","N","C","E">>),
      ReLitI(<<"W","O","R","K"," ","E","X","P","E","R","I","E","N","C","E">>),
      ReLitI(<<"E","M","P","L","O","Y","M","E","N","T">>),
      ReLitI(<<"P","R","O","F","E","S","S","I","O","N","A","L"," ",
               "E","X","P","E","R","I","E","N","C","E">>)>>

\* CERTIFICATIONS?|CERTIFICATES?
CertHeadings ==
    <<ReCat(<<ReLitI(<<"C","E","R","T","I","F","I","C","A","T","I","O","N">>),
              ReOpt(ReSet({"s", "S"}))>>),
      ReCat(<<ReLitI(<<"C","E","R","T","I","F","I","C","A","T","E">>),
              ReOpt(ReSet({"s", "S"}))>>)>>

\* LANGUAGES?
LangHeadings ==
    <<ReCat(<<ReLitI(<<"L","A","N","G","U","A","G","E">>), ReOpt(ReSet({"s", "S"}))>>)>>

----------------------------------------------------------------------------
(* extract_skills *)

\* the loop with the test of the length left out: `if cleaned_skill:`
CleanSkillsKeepsSingle(pieces) ==
    {Strip(pieces[k]) : k \in {j \in 1..Len(pieces) : Len(Strip(pieces[j])) > 0}}

\* the loop over the pieces of one split: the cleaned pieces of more than one
\* character
CleanSkills(pieces) ==
    {Strip(pieces[k]) : k \in {j \in 1..Len(pieces) : Len(Strip(pieces[j])) > 1}}

\* what the match of one pattern adds to skills_set
SkillsOfSection(skills_match) ==
    IF skills_match.found
    THEN CleanSkills(Split(ReSet({",", Bullet, "|", "/", NL}), skills_match.text))
    ELSE {}

\* what one pattern adds to skills_set
SkillsOfPattern(headings, text) == SkillsOfSection(SectionSearch(headings, text))

\* the loop over skills_patterns left at the first pattern that matches:
\* a `break` at the end of `if skills_match:`
extract_skills_first_match(text) ==
    IF SectionSearch(skills_patterns[1], text).found
    THEN Sorted(SkillsOfPattern(skills_patterns[1], text))
    ELSE Sorted(SkillsOfPattern(skills_patterns[2], text))

extract_skills(text) ==
    Sorted(UNION {SkillsOfPattern(skills_patterns[k], text) : k \in 1..Len(skills_patterns)})

----------------------------------------------------------------------------
(* extract_education *)

\* \n(?=[A-Z])
EducationSplit == ReCat(<<ReSet({NL}), ReAhead(ReSet(Upper))>>)

\* (?i)(B\.?S\.?|M\.?S\.?|Ph\.?D\.?|Bachelor'?s?|Master'?s?|Doctorate|MBA|BE|ME|MTech|BTech).*?(?=\n|$)
DegreePattern ==
    ReCat(<<ReAlt(<<ReCat(<<ReLitI(<<"B">>), ReOpt(ReSet({"."})),
                            ReLitI(<<"S">>), ReOpt(ReSet({"."}))>>),
                    ReCat(<<ReLitI(<<"M">>), ReOpt(ReSet({"."})),
                            ReLitI(<<"S">>), ReOpt(ReSet({"."}))>>),
                    ReCat(<<ReLitI(<<"P","h">>), ReOpt(ReSet({"."})),
                            ReLitI(<<"D">>), ReOpt(ReSet({"."}))>>),
                    ReCat(<<ReLitI(<<"B","a","c","h","e","l","o","r">>),
                            ReOpt(ReSet({"'"})), ReOpt(ReSet({"s", "S"}))>>),
                    ReCat(<<ReLitI(<<"M","a","s","t","e","r">>),
                            ReOpt(ReSet({"'"})), ReOpt(ReSet({"s", "S"}))>>),
                    ReLitI(<<"D","o","c","t","o","r","a","t","e">>),
                    ReLitI(<<"M","B","A">>),
                    ReLitI(<<"B","E">>),
                    ReLitI(<<"M","E">>),
                    ReLitI(<<"M","T","e","c","h">>),
                    ReLitI(<<"B","T","e","c","h">>)>>),
            ReLazyStar(ReDot),
            ReAhead(ReAlt(<<ReSet({NL}), ReEos>>))>>)

\* (19|20)\d{2}
Year4 == ReCat(<<ReAlt(<<ReLit(<<"1","9">>), ReLit(<<"2","0">>)>>), ReRep(ReSet(Digit), 2, 2, TRUE)>>)

\* the year pattern with the range left out: (19|20)\d{2}
YearPatternSingle == Year4

\* (19|20)\d{2}(?:\s*-\s*(19|20)\d{2})?
YearPattern ==
    ReCat(<<Year4,
            ReOpt(ReCat(<<ReStar(ReSet(Space)), ReSet({"-"}), ReStar(ReSet(Space)), Year4>>))>>)

\* (19|20)\d{2}.*$
YearToEnd == ReCat(<<Year4, ReStar(ReDot), ReEos>>)

\* the dict built from one entry
EducationEntry(entry) ==
    [degree      |-> Strip(Group0OrEmpty(entry, Search(DegreePattern, entry))),
     institution |-> Strip(Sub(YearToEnd, entry)),
     year        |-> Group0OrEmpty(entry, Search(YearPattern, entry))]

\* the loop over the entries that are not blank
EducationEntries(kept) == [k \in 1..Len(kept) |-> EducationEntry(kept[k])]

\* extract_education returning one blank entry when it finds no section
EducationOfSectionDefault(education_match) ==
    IF ~education_match.found
    THEN <<[degree |-> <<>>, institution |-> <<>>, year |-> <<>>]>>
    ELSE EducationEntries(SelectSeq(Split(EducationSplit, education_match.text),
                                    LAMBDA entry : Strip(entry) # <<>>))

\* the rest of extract_education, education_match being the section found
EducationOfSection(education_match) ==
    IF ~education_match.found THEN <<>>
    ELSE EducationEntries(SelectSeq(Split(EducationSplit, education_match.text),
                                    LAMBDA entry : Strip(entry) # <<>>))

extract_education(text) == EducationOfSection(SectionSearch(EducationHeadings, text))

----------------------------------------------------------------------------
(* extract_experience *)

\* an element of the list re.split returns: a str, or None for a group that
\* took no part in the match
PyStr(s) == [none |-> FALSE, s |-> s]

PyNone == [none |-> TRUE, s |-> <<>>]

\* [A-Z][a-z]+ \d{4}, the first alternative of the lookahead
CapWordYearA ==
    ReCat(<<ReSet(Upper), RePlus(ReSet(Lower)), ReSet({" "}), ReRep(ReSet(Digit), 4, 4, TRUE)>>)

\* [A-Z][a-z]+ , the part of the second alternative before its group (19|20)
CapWordSpace == ReCat(<<ReSet(Upper), RePlus(ReSet(Lower)), ReSet({" "})>>)

\* [A-Z][a-z]+ (19|20)\d{2}, the second alternative
CapWordYearB == ReCat(<<CapWordSpace, Year4>>)

\* \n(?=[A-Z][a-z]+ \d{4}|[A-Z][a-z]+ (19|20)\d{2})
ExperienceSplit == ReCat(<<ReSet({NL}), ReAhead(ReAlt(<<CapWordYearA, CapWordYearB>>))>>)

\* the two characters of s from position q on
TwoAt(s, q) == PyStr(SubSeq(s, q, q + 1))

\* group 1 of a match of ExperienceSplit whose lookahead stands at position i:
\* set only when the second alternative is the one that matched
ExperienceGroup1(s, i) ==
    IF Ends(CapWordYearA, s, i) # <<>> THEN PyNone
    ELSE TwoAt(s, Ends(CapWordSpace, s, i)[1])

RECURSIVE ExperienceSplitFrom(_, _)
RECURSIVE ExperienceSplitAt(_, _, _)

\* re.split of a pattern with one group: the pieces, and after each piece
\* but the last the group of the match that ended it
ExperienceSplitFrom(s, from) ==
    ExperienceSplitAt(s, from, SearchFrom(ExperienceSplit, s, from))

ExperienceSplitAt(s, from, m) ==
    IF m = NoMatch THEN <<PyStr(SubSeq(s, from, Len(s)))>>
    ELSE <<PyStr(SubSeq(s, from, m.start - 1)), ExperienceGroup1(s, m.end)>>
             \o ExperienceSplitFrom(s, m.end)

\* ^([^,\n])+
CompanyPattern == ReCat(<<ReBos, RePlus(ReNot({",", NL}))>>)

\* (?<=,\s)([^,\n])+
PositionPattern ==
    ReCat(<<ReBehind(ReCat(<<ReSet({","}), ReSet(Space)>>), 2), RePlus(ReNot({",", NL}))>>)

\* (?:Jan|Feb|...|Dec)[a-z]* (?:19|20)\d{2}
MonthYear ==
    ReCat(<<ReAlt(<<ReLit(<<"J","a","n">>), ReLit(<<"F","e","b">>), ReLit(<<"M","a","r">>),
                    ReLit(<<"A","p","r">>), ReLit(<<"M","a","y">>), ReLit(<<"J","u","n">>),
                    ReLit(<<"J","u","l">>), ReLit(<<"A","u","g">>), ReLit(<<"S","e","p">>),
                    ReLit(<<"O","c","t">>), ReLit(<<"N","o","v">>), ReLit(<<"D","e","c">>)>>),
            ReStar(ReSet(Lower)), ReSet({" "}), Year4>>)

\* (MonthYear\s*(?:-|en dash|to)\s*MonthYear|Present)
DatesPattern ==
    ReAlt(<<ReCat(<<MonthYear, ReStar(ReSet(Space)),
                    ReAlt(<<ReLit(<<"-">>), ReLit(<<EnDash>>), ReLit(<<"t","o">>)>>),
                    ReStar(ReSet(Space)), MonthYear>>),
            ReLit(<<"P","r","e","s","e","n","t">>)>>)

\* ^.*\n
FirstLine == ReCat(<<ReBos, ReStar(ReDot), ReSet({NL})>>)

\* the dict built from one entry
ExperienceEntry(entry) ==
    [company     |-> Strip(Group0OrEmpty(entry, Search(CompanyPattern, entry))),
     position    |-> Strip(Group0OrEmpty(entry, Search(PositionPattern, entry))),
     dates       |-> Group0OrEmpty(entry, Search(DatesPattern, entry)),
     description |-> Strip(Sub(FirstLine, entry))]

Returned(v) == [raised |-> FALSE, value |-> v, exc |-> "none"]

Raised(e) == [raised |-> TRUE, value |-> <<>>, exc |-> e]

\* the loop over the entries that are not blank
ExperienceEntries(kept) == [k \in 1..Len(kept) |-> ExperienceEntry(kept[k].s)]

\* The loop calls entry.strip() on every element of the split: a None among
\* them raises AttributeError, and the entries parsed before it are lost.
ExperienceLoop(experience_entries) ==
    IF \E k \in 1..Len(experience_entries) : experience_entries[k].none
    THEN Raised("AttributeError")
    ELSE Returned(ExperienceEntries(SelectSeq(experience_entries,
                                              LAMBDA entry : Strip(entry.s) # <<>>)))

\* the rest of extract_experience, experience_match being the section found
ExperienceOfSection(experience_match) ==
    IF ~experience_match.found THEN Returned(<<>>)
    ELSE ExperienceLoop(ExperienceSplitFrom(experience_match.text, 1))

extract_experience(text) == ExperienceOfSection(SectionSearch(ExperienceHeadings, text))

----------------------------------------------------------------------------
(* extract_contact_info *)

\* \b[A-Za-z0-9._%+-]+@[A-Za-z0-9.-]+\.[A-Z|a-z]{2,}\b
email_pattern ==
    ReCat(<<ReWb,
            RePlus(ReSet(Upper \cup Lower \cup Digit \cup {".", "_", "%", "+", "-"})),
            ReSet({"@"}),
            RePlus(ReSet(Upper \cup Lower \cup Digit \cup {".", "-"})),
            ReSet({"."}),
            ReRepInf(ReSet(Upper \cup Lower \cup {"|"}), 2, TRUE),
            ReWb>>)

\* [-.\s]?
PhoneSep == ReOpt(ReSet({"-", "."} \cup Space))

\* \d{n}
Digits(n) == ReRep(ReSet(Digit), n, n, TRUE)

\* (?:(?:\+\d{1,3}[-.\s]?)?\(?(?:\d{3})\)?[-.\s]?\d{3}[-.\s]?\d{4}|\d{4}[-.\s]?\d{3}[-.\s]?\d{3})
\* (written under re.VERBOSE: its blanks and comments are no part of it)
phone_pattern ==
    ReAlt(<<ReCat(<<ReOpt(ReCat(<<ReSet({"+"}), ReRep(ReSet(Digit), 1, 3, TRUE), PhoneSep>>)),
                    ReOpt(ReSet({"("})), Digits(3), ReOpt(ReSet({")"})), PhoneSep,
                    Digits(3), PhoneSep, Digits(4)>>),
            ReCat(<<Digits(4), PhoneSep, Digits(3), PhoneSep, Digits(3)>>)>>)

\* (?:https?:)?\/\/(?:[\w]+\.)?linkedin\.com\/in\/[\w\-\_A-y%]+\/?
\* (the accented letters of the last class are outside the model's characters)
linkedin_pattern ==
    ReCat(<<ReOpt(ReCat(<<ReLit(<<"h","t","t","p">>), ReOpt(ReSet({"s"})), ReSet({":"})>>)),
            ReLit(<<"/","/">>),
            ReOpt(ReCat(<<RePlus(ReSet(Word)), ReSet({"."})>>)),
            ReLit(<<"l","i","n","k","e","d","i","n",".","c","o","m","/","i","n","/">>),
            RePlus(ReSet(Word \cup {"-", "_", "%"})),
            ReOpt(ReSet({"/"}))>>)

\* (?i)(?:^|\n)([A-Za-z\s,]+(?:,\s*[A-Za-z\s]+)){1,2}(?=\n|$)
location_pattern ==
    ReCat(<<ReAlt(<<ReBos, ReSet({NL})>>),
            ReRep(ReCat(<<RePlus(ReSet(Upper \cup Lower \cup Space \cup {","})),
                          ReSet({","}),
                          ReStar(ReSet(Space)),
                          RePlus(ReSet(Upper \cup Lower \cup Space))>>), 1, 2, TRUE),
            ReAhead(ReAlt(<<ReSet({NL}), ReEos>>))>>)

extract_contact_info(text) ==
    [email    |-> Group0OrEmpty(text, Search(email_pattern, text)),
     phone    |-> Group0OrEmpty(text, Search(phone_pattern, text)),
     linkedin |-> Group0OrEmpty(text, Search(linkedin_pattern, text)),
     location |-> Strip(Group0OrEmpty(text, Search(location_pattern, text)))]

----------------------------------------------------------------------------
(* extract_additional_info *)

\* [x.strip() for x in parts if x.strip()]
StrippedItems(parts) ==
    [k \in 1..Len(SelectSeq(parts, LAMBDA x : Strip(x) # <<>>)) |->
        Strip(SelectSeq(parts, LAMBDA x : Strip(x) # <<>>)[k])]

\* the items of a section split at commas as well, whatever seps says: the
\* separators of the languages copied to the certifications
ItemsOfSectionWithCommas(seps, match) ==
    IF match.found THEN StrippedItems(Split(ReSet(seps \cup {","}), match.text)) ELSE <<>>

\* the items of the section found, split at the characters seps
ItemsOfSection(seps, match) ==
    IF match.found THEN StrippedItems(Split(ReSet(seps), match.text)) ELSE <<>>

extract_additional_info(text) ==
    [certifications |-> ItemsOfSection({NL, Bullet}, SectionSearch(CertHeadings, text)),
     languages      |-> ItemsOfSection({",", Bullet, NL}, SectionSearch(LangHeadings, text))]

----------------------------------------------------------------------------
(* Files and the two decoders *)

\* str.isupper(): some cased character, and no lower case one
IsUpper(s) ==
    /\ \E k \in 1..Len(s) : s[k] \in Upper
    /\ \A k \in 1..Len(s) : s[k] \notin Lower

\* the index of the last c in p, 0 when there is none: p.rfind(c) + 1
RFind(p, c) ==
    LET at == {k \in 1..Len(p) : p[k] = c}
    IN  IF at = {} THEN 0 ELSE CHOOSE k \in at : \A j \in at : j <= k

\* os.path.splitext(p)[1]: from the last dot of the last component on, unless
\* only dots precede it there
SplitExt(p) ==
    LET sep == RFind(p, "/")
        dot == RFind(p, ".")
    IN  IF dot > sep /\ (\E k \in (sep + 1)..(dot - 1) : p[k] # ".")
        THEN SubSeq(p, dot, Len(p)) ELSE <<>>

PdfExt == <<".","p","d","f">>

DocxExt == <<".","d","o","c","x">>

\* the paragraphs kept by _extract_docx_text, a heading with a line break added
DocxParagraphs(paragraphs) ==
    LET kept == SelectSeq(paragraphs, LAMBDA p : Strip(p) # <<>>)
    IN  [k \in 1..Len(kept) |-> IF IsUpper(kept[k]) THEN kept[k] \o <<NL>> ELSE kept[k]]

\* ' | '.join(cell.text.strip() for cell in row.cells if cell.text.strip())
DocxRow(cells) ==
    LET kept == SelectSeq(cells, LAMBDA c : Strip(c) # <<>>)
    IN  Join(<<" ", "|", " ">>, [k \in 1..Len(kept) |-> Strip(kept[k])])

\* the rows of all tables, in order
RECURSIVE DocxRows(_)
DocxRows(tables) ==
    IF tables = <<>> THEN <<>>
    ELSE [k \in 1..Len(Head(tables)) |-> DocxRow(Head(tables)[k])] \o DocxRows(Tail(tables))

_extract_docx_text(doc) ==
    Join(<<NL>>, DocxParagraphs(doc.paragraphs)
                   \o SelectSeq(DocxRows(doc.tables), LAMBDA row_text : row_text # <<>>))

\* A file on disk: its path, whether it exists, whether its decoder can read
\* it, and what is in it: the text pdfminer's extract_text returns for a PDF,
\* the paragraphs and tables python-docx's Document holds for a DOCX.
PdfFile(path, text) ==
    [path |-> path, exists |-> TRUE, readable |-> TRUE,
     text |-> text, paragraphs |-> <<>>, tables |-> <<>>]

DocxFile(path, paragraphs, tables) ==
    [path |-> path, exists |-> TRUE, readable |-> TRUE,
     text |-> <<>>, paragraphs |-> paragraphs, tables |-> tables]

Corrupt(f) == [f EXCEPT !.readable = FALSE]

Missing(f) == [f EXCEPT !.exists = FALSE]

SkillsTextA ==
    <<"S","K","I","L","L","S",":","P","y","t","h","o","n",","," ","G","o",NL,"R","u","s","t">>

SkillsTextB ==
    <<"S","K","I","L","L","S",":","P","y","t","h","o","n",",","G","o",",","R","u","s","t">>

ExperienceText ==
    <<"W","O","R","K"," ","E","X","P","E","R","I","E","N","C","E",":",NL,
      "A","c","m","e"," ","C","o","r","p",","," ","E","n","g","i","n","e","e","r",NL,
      "J","a","n"," ","2","0","2","0"," ","t","o"," ","P","r","e","s","e","n","t",NL,
      "B","u","i","l","t"," ","s","y","s","t","e","m","s",".">>

EducationText ==
    <<"E","D","U","C","A","T","I","O","N",":",NL,"M","I","T",NL,
      "B",".","S","."," ","C","o","m","p","u","t","e","r"," ","S","c","i","e","n","c","e",NL,
      "2","0","1","8","-","2","0","2","2">>

\* no section heading, but a location and an e-mail address
ContactText ==
    <<"P","a","r","i","s",","," ","F","r","a","n","c","e",NL,"j","a","n","e","@","x",".","i","o">>

\* no section heading, but a phone number and a profile URL
ProfileText ==
    <<"A","n","n"," ","L","e","e",NL,"5","5","5","-","1","2","3","-","4","5","6","7",NL,
      "/","/","l","i","n","k","e","d","i","n",".","c","o","m","/","i","n","/","a","n","n">>

PlainText == <<"H","e","l","l","o"," ","w","o","r","l","d">>

BlankText == <<" ", NL>>

\* a DOCX with a heading paragraph, an empty paragraph and a table
GoodDocx ==
    DocxFile(<<"k",".","d","o","c","x">>,
             <<<<"S","K","I","L","L","S">>, <<" ">>, <<"G","o",","," ","A","d","a">>>>,
             <<<<<<<<"R","u","s","t">>, <<>>, <<" ","J","a","v","a">>>>>>>>)

\* a DOCX whose paragraphs and cells are all blank
EmptyDocx == DocxFile(<<"l",".","d","o","c","x">>, <<<<>>, <<" ">>>>, <<<<<<<<" ">>>>>>>>)

\* the files parse_cv is called on
Files ==
    {PdfFile(<<"a",".","p","d","f">>, SkillsTextA),
     PdfFile(<<"b",".","P","D","F">>, SkillsTextB),
     PdfFile(<<"c",".","p","d","f">>, ExperienceText),
     PdfFile(<<"d",".","p","d","f">>, EducationText),
     PdfFile(<<"e",".","p","d","f">>, ContactText),
     PdfFile(<<"f",".","p","d","f">>, PlainText),
     PdfFile(<<"g",".","p","d","f">>, BlankText),
     PdfFile(<<"p",".","p","d","f">>, ProfileText),
     Corrupt(PdfFile(<<"h",".","p","d","f">>, <<>>)),
     Missing(PdfFile(<<"n",".","p","d","f">>, <<>>)),
     PdfFile(<<"j",".","t","x","t">>, PlainText),
     PdfFile(<<".","p","d","f">>, SkillsTextA),
     GoodDocx,
     EmptyDocx,
     Corrupt(GoodDocx)}

\* the files of the runs with two callers
ParFiles ==
    {PdfFile(<<"a",".","p","d","f">>, SkillsTextA),
     PdfFile(<<"d",".","p","d","f">>, EducationText),
     PdfFile(<<"g",".","p","d","f">>, BlankText),
     PdfFile(<<"j",".","t","x","t">>, PlainText),
     GoodDocx}

\* what the decoder of a readable file returns
FileText(f) ==
    IF SplitExt(StrLower(f.path)) = DocxExt THEN _extract_docx_text(f) ELSE f.text

\* every value self.extracted_text takes
Texts == {<<>>} \cup {FileText(f) : f \in Files}

\* The extractors on each text, evaluated once.
SkillsOf == [text \in Texts |-> extract_skills(text)]

EducationOf == [text \in Texts |-> extract_education(text)]

ExperienceOf == [text \in Texts |-> extract_experience(text)]

ContactOf == [text \in Texts |-> extract_contact_info(text)]

AdditionalOf == [text \in Texts |-> extract_additional_info(text)]

----------------------------------------------------------------------------
(* parse_cv on one CVParser instance *)

\* the callers of parse_cv
Callers == {"a", "b"}

\* how many calls of parse_cv a run makes
MaxCalls == 3

VARIABLES
    extracted_text,  \* self.extracted_text
    parsed_data,     \* self.parsed_data
    pc,              \* per caller: where its call of parse_cv stands
    file,            \* per caller: the file at file_path
    file_ext,        \* per caller: the local file_ext
    built,           \* per caller: the items of the dict display of
                     \* extract_information evaluated so far
    exc,             \* per caller: the exception on its way to the handler
    outcome,         \* per caller: what the call returned or raised
    invoked,         \* per caller: the decoders the call has invoked
    hist,            \* the calls that ended, in order: file and outcome
    sample,          \* the input of a run of one extractor on its own
    result,          \* and its output
    session,         \* st.session_state of the browser session of app.py
    disk,            \* the temporary files that exist
    page,            \* the messages on the page when a script run has ended
    last             \* the last script run: what the user did, what raised

vars == <<extracted_text, parsed_data, pc, file, file_ext, built, exc, outcome,
          invoked, hist, sample, result, session, disk, page, last>>

\* the variables of app.py, which no call of the parser on its own touches
app == <<session, disk, page, last>>

\* the empty dict {}, and the empty str ""
EmptyDict == <<>>

NoFile == PdfFile(<<>>, <<>>)

NoExc == [type |-> "none", msg |-> ""]

NoOutcome == [kind |-> "none"]

NoSample == [pieces |-> <<>>, seps |-> <<>>]

NoResult == [done |-> FALSE, skills |-> <<>>]

\* st.session_state once initialize_session_state has run on a session state
\* that holds no key: at the first run of a session, and after clear()
InitialSession ==
    [current_step       |-> "upload",
     interview_data     |-> EmptyDict,
     interview_progress |-> [num |-> 0, den |-> 1],
     current_question   |-> 0,
     questions          |-> <<>>,
     responses          |-> <<>>,
     feedback           |-> EmptyDict,
     temp_files         |-> <<>>]

\* no button has been pressed yet
NoRun == [op |-> "none", failed |-> {}, accepted |-> FALSE]

\* the page of a session is open and nothing has been done on it
AppIdle ==
    /\ session = InitialSession
    /\ disk = {}
    /\ page = {}
    /\ last = NoRun

Init ==
    /\ AppIdle
    /\ extracted_text = <<>>
    /\ parsed_data = EmptyDict
    /\ pc = [c \in Callers |-> "idle"]
    /\ file = [c \in Callers |-> NoFile]
    /\ file_ext = [c \in Callers |-> <<>>]
    /\ built = [c \in Callers |-> EmptyDict]
    /\ exc = [c \in Callers |-> NoExc]
    /\ outcome = [c \in Callers |-> NoOutcome]
    /\ invoked = [c \in Callers |-> {}]
    /\ hist = <<>>
    /\ sample = NoSample
    /\ result = NoResult

\* raise e inside the try block
Raise(c, e) ==
    /\ exc' = [exc EXCEPT ![c] = e]
    /\ pc' = [pc EXCEPT ![c] = "except"]

\* parse_cv(file_path) is called
Call(c, f) ==
    /\ pc[c] \in {"idle", "done"}
    /\ Len(hist) + Cardinality({d \in Callers : pc[d] \notin {"idle", "done"}}) < MaxCalls
    /\ pc' = [pc EXCEPT ![c] = "exists"]
    /\ file' = [file EXCEPT ![c] = f]
    /\ file_ext' = [file_ext EXCEPT ![c] = <<>>]
    /\ built' = [built EXCEPT ![c] = EmptyDict]
    /\ exc' = [exc EXCEPT ![c] = NoExc]
    /\ outcome' = [outcome EXCEPT ![c] = NoOutcome]
    /\ invoked' = [invoked EXCEPT ![c] = {}]
    /\ UNCHANGED <<extracted_text, parsed_data, hist, sample, result, app>>

\* if not os.path.exists(file_path): raise FileNotFoundError
\* file_ext = os.path.splitext(file_path.lower())[1]
CheckExists(c) ==
    /\ pc[c] = "exists"
    /\ IF ~file[c].exists
       THEN /\ Raise(c, [type |-> "FileNotFoundError", msg |-> "File not found"])
            /\ UNCHANGED file_ext
       ELSE /\ file_ext' = [file_ext EXCEPT ![c] = SplitExt(StrLower(file[c].path))]
            /\ pc' = [pc EXCEPT ![c] = "decode"]
            /\ UNCHANGED exc
    /\ UNCHANGED <<extracted_text, parsed_data, file, built, outcome, invoked, hist,
                   sample, result, app>>

\* the PDF branch keeping a text the instance already holds:
\* `if not self.extracted_text: self.extracted_text = extract_text(file_path)`
ExtractPdfCached(c) ==
    /\ pc[c] = "decode"
    /\ file_ext[c] = PdfExt
    /\ invoked' = [invoked EXCEPT ![c] = @ \cup {"pdf"}]
    /\ IF file[c].readable
       THEN /\ extracted_text' = IF extracted_text = <<>> THEN file[c].text
                                 ELSE extracted_text
            /\ pc' = [pc EXCEPT ![c] = "check"]
            /\ UNCHANGED exc
       ELSE /\ Raise(c, [type |-> "PDFSyntaxError", msg |-> "No /Root object"])
            /\ UNCHANGED extracted_text
    /\ UNCHANGED <<parsed_data, file, file_ext, built, outcome, hist, sample, result, app>>

\* if file_ext == '.pdf': self.extracted_text = extract_text(file_path)
ExtractPdf(c) ==
    /\ pc[c] = "decode"
    /\ file_ext[c] = PdfExt
    /\ invoked' = [invoked EXCEPT ![c] = @ \cup {"pdf"}]
    /\ IF file[c].readable
       THEN /\ extracted_text' = file[c].text
            /\ pc' = [pc EXCEPT ![c] = "check"]
            /\ UNCHANGED exc
       ELSE /\ Raise(c, [type |-> "PDFSyntaxError", msg |-> "No /Root object"])
            /\ UNCHANGED extracted_text
    /\ UNCHANGED <<parsed_data, file, file_ext, built, outcome, hist, sample, result, app>>

\* elif file_ext == '.docx': self.extracted_text = self._extract_docx_text(file_path)
ExtractDocx(c) ==
    /\ pc[c] = "decode"
    /\ file_ext[c] # PdfExt
    /\ file_ext[c] = DocxExt
    /\ invoked' = [invoked EXCEPT ![c] = @ \cup {"docx"}]
    /\ IF file[c].readable
       THEN /\ extracted_text' = _extract_docx_text(file[c])
            /\ pc' = [pc EXCEPT ![c] = "check"]
            /\ UNCHANGED exc
       ELSE /\ Raise(c, [type |-> "PackageNotFoundError", msg |-> "Package not found"])
            /\ UNCHANGED extracted_text
    /\ UNCHANGED <<parsed_data, file, file_ext, built, outcome, hist, sample, result, app>>

\* the chain of branches with the else left out: the call goes on to the
\* check of the text
UnsupportedFallsThrough(c) ==
    /\ pc[c] = "decode"
    /\ file_ext[c] # PdfExt
    /\ file_ext[c] # DocxExt
    /\ pc' = [pc EXCEPT ![c] = "check"]
    /\ UNCHANGED <<extracted_text, parsed_data, file, file_ext, built, exc, outcome,
                   invoked, hist, sample, result, app>>

\* else: raise ValueError(f"Unsupported file type: {file_ext}")
Unsupported(c) ==
    /\ pc[c] = "decode"
    /\ file_ext[c] # PdfExt
    /\ file_ext[c] # DocxExt
    /\ Raise(c, [type |-> "ValueError", msg |-> "Unsupported file type"])
    /\ UNCHANGED <<extracted_text, parsed_data, file, file_ext, built, outcome, invoked,
                   hist, sample, result, app>>

\* the test of the text with the strip() left out: `if not self.extracted_text:`
CheckTextUnstripped(c) ==
    /\ pc[c] = "check"
    /\ IF extracted_text = <<>>
       THEN Raise(c, [type |-> "ValueError", msg |-> "No text could be extracted from the file"])
       ELSE /\ pc' = [pc EXCEPT ![c] = "skills"]
            /\ UNCHANGED exc
    /\ UNCHANGED <<extracted_text, parsed_data, file, file_ext, built, outcome, invoked,
                   hist, sample, result, app>>

\* if not self.extracted_text.strip(): raise ValueError(...)
CheckText(c) ==
    /\ pc[c] = "check"
    /\ IF Strip(extracted_text) = <<>>
       THEN Raise(c, [type |-> "ValueError", msg |-> "No text could be extracted from the file"])
       ELSE /\ pc' = [pc EXCEPT ![c] = "skills"]
            /\ UNCHANGED exc
    /\ UNCHANGED <<extracted_text, parsed_data, file, file_ext, built, outcome, invoked,
                   hist, sample, result, app>>

\* one item of the dict display of extract_information is evaluated
Item(c, key, value, next) ==
    /\ built' = [built EXCEPT ![c] = (key :> value) @@ @]
    /\ pc' = [pc EXCEPT ![c] = next]
    /\ UNCHANGED <<extracted_text, parsed_data, file, file_ext, exc, outcome, invoked,
                   hist, sample, result, app>>

\* 'skills': self.extract_skills()
ExtractSkills(c) ==
    /\ pc[c] = "skills"
    /\ Item(c, "skills", SkillsOf[extracted_text], "education")

\* 'education': self.extract_education()
ExtractEducation(c) ==
    /\ pc[c] = "education"
    /\ Item(c, "education", EducationOf[extracted_text], "experience")

\* the call of extract_experience has ended as r: what it raises leaves
\* extract_information, which has no handler, for the handler of parse_cv
ExperienceDone(c, r) ==
    IF r.raised
    THEN /\ Raise(c, [type |-> r.exc, msg |-> "'NoneType' object has no attribute 'strip'"])
         /\ UNCHANGED <<extracted_text, parsed_data, file, file_ext, built, outcome,
                        invoked, hist, sample, result, app>>
    ELSE Item(c, "experience", r.value, "contact")

\* 'experience': self.extract_experience()
ExtractExperience(c) ==
    /\ pc[c] = "experience"
    /\ ExperienceDone(c, ExperienceOf[extracted_text])

\* 'contact': self.extract_contact_info()
ExtractContact(c) ==
    /\ pc[c] = "contact"
    /\ Item(c, "contact", ContactOf[extracted_text], "additional")

\* 'additional': self.extract_additional_info()
ExtractAdditional(c) ==
    /\ pc[c] = "additional"
    /\ Item(c, "additional", AdditionalOf[extracted_text], "store")

\* self.parsed_data = {...}
StoreParsed(c) ==
    /\ pc[c] = "store"
    /\ parsed_data' = built[c]
    /\ pc' = [pc EXCEPT ![c] = "return"]
    /\ UNCHANGED <<extracted_text, file, file_ext, built, exc, outcome, invoked, hist,
                   sample, result, app>>

\* the call ends with the outcome o
Finish(c, o) ==
    /\ outcome' = [outcome EXCEPT ![c] = o]
    /\ hist' = Append(hist, [file |-> file[c], outcome |-> o])
    /\ pc' = [pc EXCEPT ![c] = "done"]
    /\ UNCHANGED <<extracted_text, parsed_data, file, file_ext, built, exc, invoked,
                   sample, result, app>>

\* return self.parsed_data
Return(c) ==
    /\ pc[c] = "return"
    /\ Finish(c, [kind |-> "return", value |-> parsed_data])

\* a handler that swallows the exception: `except Exception: return self.parsed_data`
HandlerReturnsStale(e, pd) == [kind |-> "return", value |-> pd]

\* what the handler does with the exception e, the record pd being in
\* self.parsed_data: raise Exception(f"Error parsing CV: {str(e)}"), with e as
\* the context of the new exception
Handler(e, pd) ==
    [kind |-> "raise",
     exc |-> [type |-> "Exception", msg |-> "Error parsing CV: ", cause |-> e]]

\* except Exception as e: raise Exception(...)
Except(c) ==
    /\ pc[c] = "except"
    /\ Finish(c, Handler(exc[c], parsed_data))

\* one step of the call of caller c
Step(c) ==
    \/ CheckExists(c)
    \/ ExtractPdf(c)
    \/ ExtractDocx(c)
    \/ Unsupported(c)
    \/ CheckText(c)
    \/ ExtractSkills(c)
    \/ ExtractEducation(c)
    \/ ExtractExperience(c)
    \/ ExtractContact(c)
    \/ ExtractAdditional(c)
    \/ StoreParsed(c)
    \/ Return(c)
    \/ Except(c)

\* One caller: the calls of parse_cv follow each other.
Next ==
    \/ \E f \in Files : Call("a", f)
    \/ Step("a")

Spec == Init /\ [][Next]_vars

\* Two callers share the instance: their calls interleave step by step.
ParNext ==
    \E c \in Callers :
        \/ \E f \in ParFiles : Call(c, f)
        \/ Step(c)

ParSpec == Init /\ [][ParNext]_vars

----------------------------------------------------------------------------
(* extract_skills on its own: a SKILLS: section built from pieces *)

\* how many pieces a section has
NumPieces == 3

\* the pieces: none holds a separator; one is empty, one a single character
\* once trimmed, one ends in a space
Pieces == {<<"G","o">>, <<"A","d","a"," ">>, <<" ","C">>, <<>>}

\* the characters of re.split(r'[,•|/\n]', skills_text)
Separators == {",", Bullet, "|", "/", NL}

Samples ==
    {[pieces |-> ps, seps |-> ss] :
        ps \in [1..NumPieces -> Pieces], ss \in [1..(NumPieces - 1) -> Separators]}

\* the pieces from the k-th on, each separator between its two pieces
RECURSIVE PiecesFrom(_, _)
PiecesFrom(s, k) ==
    IF k = Len(s.pieces) THEN s.pieces[k]
    ELSE s.pieces[k] \o <<s.seps[k]>> \o PiecesFrom(s, k + 1)

\* self.extracted_text: the heading, a colon, and the pieces
SkillsDocument(s) == <<"S","K","I","L","L","S",":">> \o PiecesFrom(s, 1)

SkillsInit ==
    /\ AppIdle
    /\ extracted_text = <<>>
    /\ parsed_data = EmptyDict
    /\ pc = [c \in Callers |-> "idle"]
    /\ file = [c \in Callers |-> NoFile]
    /\ file_ext = [c \in Callers |-> <<>>]
    /\ built = [c \in Callers |-> EmptyDict]
    /\ exc = [c \in Callers |-> NoExc]
    /\ outcome = [c \in Callers |-> NoOutcome]
    /\ invoked = [c \in Callers |-> {}]
    /\ hist = <<>>
    /\ sample \in Samples
    /\ result = NoResult

\* extract_skills() is called with the document of the sample as
\* self.extracted_text
ApplySkills ==
    /\ ~result.done
    /\ result' = [done |-> TRUE, skills |-> extract_skills(SkillsDocument(sample))]
    /\ UNCHANGED <<extracted_text, parsed_data, pc, file, file_ext, built, exc, outcome,
                   invoked, hist, sample, app>>

SkillsNext == ApplySkills

SkillsSpec == SkillsInit /\ [][SkillsNext]_vars

----------------------------------------------------------------------------
(* What the calls are expected to do *)

\* w occurs in s
Contains(s, w) == \E i \in 1..(Len(s) - Len(w) + 1) : SubSeq(s, i, i + Len(w) - 1) = w

\* the extension parse_cv looks at
Ext(f) == SplitExt(StrLower(f.path))

Supported(f) == Ext(f) \in {PdfExt, DocxExt}

\* a file that is there, of a supported format, and that its decoder reads
Parsable(f) == f.exists /\ f.readable /\ Supported(f)

\* the three fatal kinds
UnsupportedFormat(f) == f.exists /\ ~Supported(f)

DecoderFailure(f) == f.exists /\ Supported(f) /\ ~f.readable

EmptyDocument(f) == Parsable(f) /\ Strip(FileText(f)) = <<>>

\* the keys of the dict of extract_information, and of extract_contact_info
FiveKeys == {"skills", "education", "experience", "contact", "additional"}

ContactKeys == {"email", "phone", "linkedin", "location"}

\* the dict of extract_information on a text no extractor raises on
RecordOf(text) ==
    [skills     |-> SkillsOf[text],
     education  |-> EducationOf[text],
     experience |-> ExperienceOf[text].value,
     contact    |-> ContactOf[text],
     additional |-> AdditionalOf[text]]

\* every field at its empty default
EmptyRecord ==
    [skills     |-> <<>>,
     education  |-> <<>>,
     experience |-> <<>>,
     contact    |-> [email |-> <<>>, phone |-> <<>>, linkedin |-> <<>>, location |-> <<>>],
     additional |-> [certifications |-> <<>>, languages |-> <<>>]]

\* the words of the section headings, in lower case; the longer headings
\* (TECHNICAL SKILLS, WORK EXPERIENCE, ...) hold one of them
HeadingWords ==
    {<<"s","k","i","l","l","s">>,
     <<"c","o","r","e"," ","c","o","m","p","e","t","e","n","c","i","e","s">>,
     <<"e","x","p","e","r","t","i","s","e">>,
     <<"q","u","a","l","i","f","i","c","a","t","i","o","n","s">>,
     <<"t","e","c","h","n","o","l","o","g","i","e","s">>,
     <<"t","o","o","l","s">>,
     <<"s","o","f","t","w","a","r","e">>,
     <<"e","d","u","c","a","t","i","o","n">>,
     <<"a","c","a","d","e","m","i","c">>,
     <<"e","x","p","e","r","i","e","n","c","e">>,
     <<"e","m","p","l","o","y","m","e","n","t">>,
     <<"c","e","r","t","i","f","i","c","a","t","i","o","n">>,
     <<"c","e","r","t","i","f","i","c","a","t","e">>,
     <<"l","a","n","g","u","a","g","e">>}

\* the text holds no section heading, in any case
NoHeadings(text) == \A w \in HeadingWords : ~Contains(StrLower(text), w)

\* a file whose text is not blank and holds no section heading
NoHeadingsFile(f) ==
    Parsable(f) /\ Strip(FileText(f)) # <<>> /\ NoHeadings(FileText(f))

\* a file on which a call that runs alone returns a record
ReturnsAlone(f) ==
    Parsable(f) /\ Strip(FileText(f)) # <<>> /\ ~ExperienceOf[FileText(f)].raised

UnsupportedError == [type |-> "ValueError", msg |-> "Unsupported file type"]

EmptyError == [type |-> "ValueError", msg |-> "No text could be extracted from the file"]

----------------------------------------------------------------------------
(* C1 *)

\* C1: a call of parse_cv on a file that exists and whose extension is neither
\* .pdf nor .docx invokes neither the PDF nor the DOCX decoder and runs no
\* extractor; it raises ValueError "Unsupported file type", and ends by raising
\* the failure that wraps it: no record is returned.
C1_UnsupportedFailsBeforeExtraction ==
    \A c \in Callers :
        (pc[c] # "idle" /\ UnsupportedFormat(file[c])) =>
            /\ invoked[c] = {}
            /\ built[c] = EmptyDict
            /\ pc[c] \in {"exists", "decode", "except", "done"}
            /\ pc[c] = "except" => exc[c] = UnsupportedError
            /\ pc[c] = "done" => /\ outcome[c].kind = "raise"
                                 /\ outcome[c].exc.cause = UnsupportedError

\* a call on j.txt has ended, after an earlier call stored a record
C1_Witness ==
    /\ pc["a"] = "done"
    /\ file["a"].path = <<"j",".","t","x","t">>
    /\ outcome["a"].kind = "raise"
    /\ invoked["a"] = {}
    /\ parsed_data # EmptyDict

----------------------------------------------------------------------------
(* C2 *)

\* C2: a call of parse_cv on a .pdf or .docx file whose decoded text is empty
\* or only whitespace never reaches extract_information (no extractor runs, no
\* item of its dict is built) and ends by raising the failure that wraps
\* ValueError "No text could be extracted from the file"; it returns no record.
C2_EmptyDocumentRaises ==
    \A c \in Callers :
        (pc[c] # "idle" /\ EmptyDocument(file[c])) =>
            /\ built[c] = EmptyDict
            /\ pc[c] \in {"exists", "decode", "check", "except", "done"}
            /\ pc[c] = "except" => exc[c] = EmptyError
            /\ pc[c] = "done" => /\ outcome[c].kind = "raise"
                                 /\ outcome[c].exc.cause = EmptyError

\* a call on the DOCX whose paragraphs and cells are blank has ended, after an
\* earlier call stored a record
C2_Witness ==
    /\ pc["a"] = "done"
    /\ file["a"] = EmptyDocx
    /\ invoked["a"] = {"docx"}
    /\ outcome["a"].kind = "raise"
    /\ parsed_data # EmptyDict

----------------------------------------------------------------------------
(* C3 *)

\* C3: when an extractor raises during a call (extract_experience raises
\* AttributeError), the call still returns a record with all five keys, the
\* key of the extractor that raised holding its empty default.
C3_ExtractorFailureAbsorbed ==
    \A c \in Callers :
        (pc[c] = "done" /\ exc[c].type = "AttributeError") =>
            /\ outcome[c].kind = "return"
            /\ DOMAIN outcome[c].value = FiveKeys
            /\ outcome[c].value.experience = <<>>

----------------------------------------------------------------------------
(* C4 *)

\* C4: a call of parse_cv that hits a fatal kind (a file of an unsupported
\* format, a document whose text is blank, a file its decoder fails on) ends by
\* raising an Exception that wraps the exception raised inside the call; it
\* never returns a record, not even the one an earlier call stored.
C4_FatalKindsAreRaised ==
    \A c \in Callers :
        (/\ pc[c] = "done"
         /\ \/ UnsupportedFormat(file[c])
            \/ EmptyDocument(file[c])
            \/ DecoderFailure(file[c])) =>
            /\ outcome[c].kind = "raise"
            /\ outcome[c].exc.type = "Exception"
            /\ outcome[c].exc.cause = exc[c]
            /\ exc[c].type \in {"ValueError", "PDFSyntaxError", "PackageNotFoundError"}

\* a call on a DOCX its decoder fails on has ended, the record of an earlier
\* call being in self.parsed_data
C4_Witness ==
    /\ pc["a"] = "done"
    /\ file["a"] = Corrupt(GoodDocx)
    /\ outcome["a"].kind = "raise"
    /\ outcome["a"].exc.cause.type = "PackageNotFoundError"
    /\ parsed_data # EmptyDict

----------------------------------------------------------------------------
(* C5 *)

\* C5 as stated: a call on a document whose text is not blank and holds no
\* section heading returns the record with every field at its empty default,
\* the four contact fields empty strings.
C5_NoHeadingsAllEmpty ==
    \A c \in Callers :
        (pc[c] = "done" /\ NoHeadingsFile(file[c])) =>
            /\ outcome[c].kind = "return"
            /\ outcome[c].value = EmptyRecord

\* C5 amended: a call on a document whose text is not blank and holds no
\* section heading does not raise and returns a record of the five keys;
\* skills, education, experience, certifications and languages are empty
\* sequences; contact holds the four fields, each the empty string or a
\* string found in the text: an e-mail address (it holds an @), a phone number
\* (it holds a digit), a profile URL (it holds "linkedin.com"), a location.
C5_NoHeadingsSectionsEmpty ==
    \A c \in Callers :
        (pc[c] = "done" /\ NoHeadingsFile(file[c])) =>
            /\ outcome[c].kind = "return"
            /\ DOMAIN outcome[c].value = FiveKeys
            /\ outcome[c].value.skills = <<>>
            /\ outcome[c].value.education = <<>>
            /\ outcome[c].value.experience = <<>>
            /\ outcome[c].value.additional = [certifications |-> <<>>, languages |-> <<>>]
            /\ DOMAIN outcome[c].value.contact = ContactKeys
            /\ \A k \in ContactKeys :
                   Contains(FileText(file[c]), outcome[c].value.contact[k])
            /\ outcome[c].value.contact.email # <<>> =>
                   Contains(outcome[c].value.contact.email, <<"@">>)
            /\ outcome[c].value.contact.phone # <<>> =>
                   \E d \in Digit : Contains(outcome[c].value.contact.phone, <<d>>)
            /\ outcome[c].value.contact.linkedin # <<>> =>
                   Contains(outcome[c].value.contact.linkedin,
                            <<"l","i","n","k","e","d","i","n",".","c","o","m">>)

\* a call on the text "Paris, France\njane@x.io" has returned: its contact
\* fields are not empty
C5_Witness ==
    /\ pc["a"] = "done"
    /\ FileText(file["a"]) = ContactText
    /\ NoHeadingsFile(file["a"])
    /\ outcome["a"].kind = "return"
    /\ outcome["a"].value.contact.email = <<"j","a","n","e","@","x",".","i","o">>
    /\ outcome["a"].value.contact.location = <<"P","a","r","i","s",","," ","F","r","a","n","c","e">>

----------------------------------------------------------------------------
(* C6 *)

\* C6: calls that follow each other on one instance and parse documents of the
\* same text end the same way, with field-for-field equal records, whatever
\* the instance parsed before or in between, successfully or not.
C6_SameTextSameRecord ==
    \A i, j \in 1..Len(hist) :
        (/\ Parsable(hist[i].file)
         /\ Parsable(hist[j].file)
         /\ FileText(hist[i].file) = FileText(hist[j].file)) =>
            hist[i].outcome = hist[j].outcome

\* the first call, on a fresh instance, and the third returned the record
\* of the same document; the call between them failed
C6_Witness ==
    /\ Len(hist) = 3
    /\ hist[1].file = hist[3].file
    /\ hist[1].outcome.kind = "return"
    /\ hist[1].outcome.value.skills # <<>>
    /\ hist[2].outcome.kind = "raise"
    /\ hist[3].outcome = hist[1].outcome

----------------------------------------------------------------------------
(* C7 *)

\* C7: with two callers going through one instance, under every interleaving a
\* call on a document it parses when it runs alone returns the record of that
\* document.
C7_ParallelCallsIndependent ==
    \A c \in Callers :
        (pc[c] = "done" /\ ReturnsAlone(file[c])) =>
            outcome[c] = [kind |-> "return", value |-> RecordOf(FileText(file[c]))]

----------------------------------------------------------------------------
(* C8 *)

\* the pieces of the section: a blank line, which is a line break, an empty
\* piece and a line break, ends the section
SectionPieces(s) ==
    LET cut == {k \in 1..(Len(s.seps) - 1) :
                   s.seps[k] = NL /\ s.pieces[k + 1] = <<>> /\ s.seps[k + 1] = NL}
    IN  IF cut = {} THEN s.pieces
        ELSE SubSeq(s.pieces, 1, CHOOSE k \in cut : \A j \in cut : k <= j)

\* the pieces of the section, trimmed, of more than one character
KeptPieces(s) ==
    {Strip(SectionPieces(s)[k]) :
        k \in {j \in 1..Len(SectionPieces(s)) : Len(Strip(SectionPieces(s)[j])) > 1}}

\* the same pieces with a comma between any two
WithCommas(s) == [s EXCEPT !.seps = [k \in DOMAIN s.seps |-> ","]]

\* C8: extract_skills returns the trimmed pieces of the skills section, split
\* at comma, bullet, pipe, slash and line break, of more than one character,
\* each once and in ascending order; a section without blank line yields what
\* the same pieces yield with commas between them.
C8_SkillsAreSortedPieces ==
    result.done =>
        /\ \A k \in 1..(Len(result.skills) - 1) :
               StrLess(result.skills[k], result.skills[k + 1])
        /\ {result.skills[k] : k \in 1..Len(result.skills)} = KeptPieces(sample)
        /\ SectionPieces(sample) = sample.pieces =>
               result.skills = extract_skills(SkillsDocument(WithCommas(sample)))

\* "SKILLS:Go\n C/Ada " has yielded Ada and Go
C8_Witness ==
    /\ result.done
    /\ sample.pieces = <<<<"G","o">>, <<" ","C">>, <<"A","d","a"," ">>>>
    /\ sample.seps = <<NL, "/">>
    /\ result.skills = <<<<"A","d","a">>, <<"G","o">>>>

----------------------------------------------------------------------------
(* C9 *)

\* C9: a call on the text "WORK EXPERIENCE:\nAcme Corp, Engineer\nJan 2020 to
\* Present\nBuilt systems." returns a record whose experience is one entry, of
\* company "Acme Corp", position "Engineer", dates "Jan 2020 to Present" and a
\* description that holds "Built systems.".
C9_ExperienceExample ==
    \A c \in Callers :
        (pc[c] = "done" /\ Parsable(file[c]) /\ FileText(file[c]) = ExperienceText) =>
            /\ outcome[c].kind = "return"
            /\ Len(outcome[c].value.experience) = 1
            /\ outcome[c].value.experience[1].company = <<"A","c","m","e"," ","C","o","r","p">>
            /\ outcome[c].value.experience[1].position = <<"E","n","g","i","n","e","e","r">>
            /\ outcome[c].value.experience[1].dates =
                   <<"J","a","n"," ","2","0","2","0"," ","t","o"," ","P","r","e","s","e","n","t">>
            /\ Contains(outcome[c].value.experience[1].description,
                        <<"B","u","i","l","t"," ","s","y","s","t","e","m","s",".">>)

----------------------------------------------------------------------------
(* C10 *)

\* C10 as stated: a call on the text "EDUCATION:\nMIT\nB.S. Computer
\* Science\n2018-2022" returns a record whose education is one entry, of a
\* degree that holds "B.S." and of year "2018-2022".
C10_EducationOneEntry ==
    \A c \in Callers :
        (pc[c] = "done" /\ Parsable(file[c]) /\ FileText(file[c]) = EducationText) =>
            /\ outcome[c].kind = "return"
            /\ Len(outcome[c].value.education) = 1
            /\ Contains(outcome[c].value.education[1].degree, <<"B",".","S",".">>)
            /\ outcome[c].value.education[1].year = <<"2","0","1","8","-","2","0","2","2">>

\* C10 amended: the call returns a record whose education is two entries: the
\* first of institution "MIT", with empty degree and year; the second of degree
\* "B.S. Computer Science", which holds "B.S.", and of year "2018-2022".
C10_EducationTwoEntries ==
    \A c \in Callers :
        (pc[c] = "done" /\ Parsable(file[c]) /\ FileText(file[c]) = EducationText) =>
            /\ outcome[c].kind = "return"
            /\ Len(outcome[c].value.education) = 2
            /\ outcome[c].value.education[1] =
                   [degree |-> <<>>, institution |-> <<"M","I","T">>, year |-> <<>>]
            /\ outcome[c].value.education[2].degree =
                   <<"B",".","S","."," ","C","o","m","p","u","t","e","r"," ",
                     "S","c","i","e","n","c","e">>
            /\ Contains(outcome[c].value.education[2].degree, <<"B",".","S",".">>)
            /\ outcome[c].value.education[2].year = <<"2","0","1","8","-","2","0","2","2">>

\* a call on that text has returned
C10_Witness ==
    /\ pc["a"] = "done"
    /\ FileText(file["a"]) = EducationText
    /\ outcome["a"].kind = "return"
    /\ Len(outcome["a"].value.education) = 2

----------------------------------------------------------------------------
(* extract_skills on a text with a section of each family of headings *)

\* the headings of a family, as the pattern writes them
HeadingsOf(family) == {family[k].w : k \in 1..Len(family)}

\* the pieces of the section under a heading of the first family; none has a
\* separator, a blank at its ends, or fewer than two characters
FirstBodies == {<<<<"G","o">>, <<"A","d","a">>>>, <<<<"G","o">>>>}

\* and of the section under a heading of the second family
SecondBodies == {<<<<"g","i","t">>, <<"v","i","m">>>>, <<<<"G","o">>, <<"g","i","t">>>>}

FamilySamples ==
    [first      : HeadingsOf(skills_patterns[1]),
     second     : HeadingsOf(skills_patterns[2]),
     lower      : BOOLEAN,
     after      : {":", NL},
     firstBody  : FirstBodies,
     secondBody : SecondBodies,
     gap        : {<<NL>>, <<NL, NL>>},
     firstFirst : BOOLEAN]

\* a heading as the document writes it, what follows it, and the pieces
HeadedSection(heading, lower, after, joiner, pieces) ==
    (IF lower THEN StrLower(heading) ELSE heading) \o <<after>> \o Join(joiner, pieces)

FirstSection(s) == HeadedSection(s.first, s.lower, s.after, <<",", " ">>, s.firstBody)

SecondSection(s) == HeadedSection(s.second, s.lower, s.after, <<"|">>, s.secondBody)

\* self.extracted_text: the two sections, a line break or a blank line between
FamiliesDocument(s) ==
    IF s.firstFirst THEN FirstSection(s) \o s.gap \o SecondSection(s)
    ELSE SecondSection(s) \o s.gap \o FirstSection(s)

FamiliesInit ==
    /\ AppIdle
    /\ extracted_text = <<>>
    /\ parsed_data = EmptyDict
    /\ pc = [c \in Callers |-> "idle"]
    /\ file = [c \in Callers |-> NoFile]
    /\ file_ext = [c \in Callers |-> <<>>]
    /\ built = [c \in Callers |-> EmptyDict]
    /\ exc = [c \in Callers |-> NoExc]
    /\ outcome = [c \in Callers |-> NoOutcome]
    /\ invoked = [c \in Callers |-> {}]
    /\ hist = <<>>
    /\ sample \in FamilySamples
    /\ result = NoResult

\* extract_skills() is called with the document of the sample as
\* self.extracted_text
ApplyFamilies ==
    /\ ~result.done
    /\ result' = [done |-> TRUE, skills |-> extract_skills(FamiliesDocument(sample))]
    /\ UNCHANGED <<extracted_text, parsed_data, pc, file, file_ext, built, exc, outcome,
                   invoked, hist, sample, app>>

FamiliesNext == ApplyFamilies

FamiliesSpec == FamiliesInit /\ [][FamiliesNext]_vars

\* the elements of a list
Elements(q) == {q[k] : k \in 1..Len(q)}

----------------------------------------------------------------------------
(* C11 *)

\* C11: on a text with a section headed by a heading of the first family
\* (SKILLS, TECHNICAL SKILLS, CORE COMPETENCIES, EXPERTISE, QUALIFICATIONS) and
\* a section headed by one of the second (TECHNOLOGIES, TOOLS, SOFTWARE), in
\* either order, extract_skills returns the pieces of both sections; when a
\* blank line parts the two sections it returns nothing else.
C11_BothFamiliesUnioned ==
    result.done =>
        /\ Elements(sample.firstBody) \subseteq Elements(result.skills)
        /\ Elements(sample.secondBody) \subseteq Elements(result.skills)
        /\ sample.gap = <<NL, NL>> =>
               Elements(result.skills) =
                   Elements(sample.firstBody) \cup Elements(sample.secondBody)

\* "core competencies\nGo, Ada\n\nsoftware\ngit|vim" has yielded the four pieces
C11_Witness ==
    /\ result.done
    /\ sample.first = <<"C","O","R","E"," ","C","O","M","P","E","T","E","N","C","I","E","S">>
    /\ sample.second = <<"S","O","F","T","W","A","R","E">>
    /\ sample.lower
    /\ sample.after = NL
    /\ sample.firstFirst
    /\ sample.gap = <<NL, NL>>
    /\ result.skills = <<<<"A","d","a">>, <<"G","o">>, <<"g","i","t">>, <<"v","i","m">>>>

----------------------------------------------------------------------------
(* extract_additional_info on its own: the same lines under CERTIFICATIONS: *)
(* and under LANGUAGES:                                                     *)

\* how many pieces a section has
NumItems == 3

\* the pieces: none holds a comma, a bullet or a line break; one is empty, one
\* begins with a space
Items == {<<"E","n","g","l","i","s","h">>, <<" ","F","r","e","n","c","h">>, <<>>}

\* the characters one or the other of the two re.split calls splits at
ItemSeparators == {",", Bullet, NL}

AdditionalSamples ==
    {[pieces |-> ps, seps |-> ss] :
        ps \in [1..NumItems -> Items], ss \in [1..(NumItems - 1) -> ItemSeparators]}

\* self.extracted_text: the pieces under CERTIFICATIONS:, a blank line, and the
\* same pieces under LANGUAGES:
AdditionalDocument(s) ==
    <<"C","E","R","T","I","F","I","C","A","T","I","O","N","S",":">> \o PiecesFrom(s, 1)
        \o <<NL, NL>>
        \o <<"L","A","N","G","U","A","G","E","S",":">> \o PiecesFrom(s, 1)

AdditionalInit ==
    /\ AppIdle
    /\ extracted_text = <<>>
    /\ parsed_data = EmptyDict
    /\ pc = [c \in Callers |-> "idle"]
    /\ file = [c \in Callers |-> NoFile]
    /\ file_ext = [c \in Callers |-> <<>>]
    /\ built = [c \in Callers |-> EmptyDict]
    /\ exc = [c \in Callers |-> NoExc]
    /\ outcome = [c \in Callers |-> NoOutcome]
    /\ invoked = [c \in Callers |-> {}]
    /\ hist = <<>>
    /\ sample \in AdditionalSamples
    /\ result = NoResult

\* extract_additional_info() is called with the document of the sample as
\* self.extracted_text
ApplyAdditional ==
    /\ ~result.done
    /\ result' = [done |-> TRUE,
                  additional |-> extract_additional_info(AdditionalDocument(sample))]
    /\ UNCHANGED <<extracted_text, parsed_data, pc, file, file_ext, built, exc, outcome,
                   invoked, hist, sample, app>>

AdditionalNext == ApplyAdditional

AdditionalSpec == AdditionalInit /\ [][AdditionalNext]_vars

----------------------------------------------------------------------------
(* C12 *)

\* the items the pieces from the k-th on make, cur being the item under way:
\* a separator of the set `at` ends an item, any other character stays in it
RECURSIVE ItemsFrom(_, _, _, _, _)
ItemsFrom(pieces, seps, k, cur, at) ==
    IF k > Len(pieces) THEN <<cur>>
    ELSE IF seps[k - 1] \in at
         THEN <<cur>> \o ItemsFrom(pieces, seps, k + 1, pieces[k], at)
         ELSE ItemsFrom(pieces, seps, k + 1, cur \o <<seps[k - 1]>> \o pieces[k], at)

\* the items of the section of a sample, trimmed, the empty ones dropped, in
\* the order of the text and with their repetitions
KeptItems(s, at) ==
    SelectSeq([k \in 1..Len(ItemsFrom(SectionPieces(s), s.seps, 2, s.pieces[1], at)) |->
                  Strip(ItemsFrom(SectionPieces(s), s.seps, 2, s.pieces[1], at)[k])],
              LAMBDA x : x # <<>>)

\* C12 as stated: certifications and languages are both the items of their
\* section split at line breaks and bullet characters only, trimmed, the empty
\* ones dropped, in the order of the text and with duplicates kept; a line
\* "English, French" is one item.
C12_BothSplitAtLinesAndBullets ==
    result.done =>
        /\ result.additional.certifications = KeptItems(sample, {NL, Bullet})
        /\ result.additional.languages = KeptItems(sample, {NL, Bullet})

\* C12 amended: certifications are the items of their section split at line
\* breaks and bullet characters only; languages are the items of their section
\* split at commas as well; both are trimmed, the empty ones dropped, in the
\* order of the text and with duplicates kept.
C12_LanguagesSplitAtCommasToo ==
    result.done =>
        /\ result.additional.certifications = KeptItems(sample, {NL, Bullet})
        /\ result.additional.languages = KeptItems(sample, {",", NL, Bullet})

\* "English, French\nEnglish" has yielded two certifications and three
\* languages, English twice
C12_Witness ==
    /\ result.done
    /\ sample.pieces = <<<<"E","n","g","l","i","s","h">>, <<" ","F","r","e","n","c","h">>,
                         <<"E","n","g","l","i","s","h">>>>
    /\ sample.seps = <<",", NL>>
    /\ result.additional.certifications =
           <<<<"E","n","g","l","i","s","h",","," ","F","r","e","n","c","h">>,
             <<"E","n","g","l","i","s","h">>>>
    /\ result.additional.languages =
           <<<<"E","n","g","l","i","s","h">>, <<"F","r","e","n","c","h">>,
             <<"E","n","g","l","i","s","h">>>>


----------------------------------------------------------------------------
(* app.py: the session of one user; every action is one run of main() *)

\* how many temporary files a session records before it stops uploading
MaxTempFiles == 4

\* what save_uploadedfile returns when it made no file; the names of the
\* temporary files are 1, 2, ...
None == 0

\* the selectbox of the sidebar with the multiselect under "Technical"
Widgets ==
    {[interview_type |-> <<"C","o","m","p","e","t","e","n","c","y"," ","B","a","s","e","d">>,
      technical_stack |-> <<>>],
     [interview_type |-> <<"B","e","h","a","v","i","o","r","a","l">>, technical_stack |-> <<>>],
     [interview_type |-> <<"T","e","c","h","n","i","c","a","l">>, technical_stack |-> <<>>],
     [interview_type |-> <<"T","e","c","h","n","i","c","a","l">>,
      technical_stack |-> <<"Python">>]}

\* if interview_type == "Technical":
\*     st.session_state.interview_data['technical_stack'] = technical_stack
Sidebar(s, w) ==
    IF w.interview_type = <<"T","e","c","h","n","i","c","a","l">>
    THEN [s EXCEPT !.interview_data = ("technical_stack" :> w.technical_stack) @@ @]
    ELSE s

\* the CVs a user uploads: the uploader takes pdf and docx
CvUploads ==
    {PdfFile(<<"a",".","p","d","f">>, SkillsTextA),
     PdfFile(<<"g",".","p","d","f">>, BlankText),
     Corrupt(PdfFile(<<"h",".","p","d","f">>, <<>>)),
     GoodDocx}

\* the job description of a run: none uploaded, one that cannot be saved, one
\* that is saved and cannot be parsed, one that is saved and parsed
JdUploads == {"none", "unsaved", "unparsed", "parsed"}

\* a call of parse_cv on the parser the run has just built: cv_parser = CVParser()
parse_cv(f) ==
    IF ReturnsAlone(f)
    THEN [kind |-> "return", value |-> RecordOf(FileText(f))]
    ELSE [kind |-> "raise"]

\* what JobDescriptionParser.parse_job_description returns
JdRecord == [parsed |-> "job description"]

\* save_uploadedfile: the path of the new file, or None with an error shown
\* when there is no upload or when making the file raises
save_uploadedfile(uploaded, saves, name) ==
    IF ~uploaded THEN [path |-> None, shown |-> {}]
    ELSE IF saves THEN [path |-> name, shown |-> {}]
    ELSE [path |-> None, shown |-> {"Error saving file"}]

\* the paths a session has recorded
TempFiles(s) == {s.temp_files[i] : i \in DOMAIN s.temp_files}

\* cleanup_temp_files: os.unlink of every recorded file that exists
cleanup_temp_files(d, s) == d \ TempFiles(s)

\* if path: st.session_state.temp_files.append(path)
Recorded(s, path) ==
    IF path # None THEN [s EXCEPT !.temp_files = Append(@, path)] ELSE s

\* st.session_state.interview_data[key] = value
WithData(s, key, value) == [s EXCEPT !.interview_data = (key :> value) @@ @]

\* process_documents with the CV parsed as cv_outcome: the session it leaves
\* and what raised in it
ProcessedAs(s, cv_outcome, jd_temp_path, jd) ==
    IF cv_outcome.kind = "raise" THEN [raised |-> {"cv_parse"}, session |-> s]
    ELSE IF jd_temp_path = None
    THEN [raised |-> {}, session |-> WithData(s, "cv_data", cv_outcome.value)]
    ELSE IF jd = "unparsed"
    THEN [raised |-> {"jd_parse"}, session |-> WithData(s, "cv_data", cv_outcome.value)]
    ELSE [raised |-> {},
          session |-> WithData(WithData(s, "cv_data", cv_outcome.value),
                               "jd_data", JdRecord)]

process_documents(s, cv, jd_temp_path, jd) ==
    ProcessedAs(s, parse_cv(cv), jd_temp_path, jd)

\* the lines after process_documents outside the try block: current_step
\* becomes 'confirm' whether or not the handler ran
AfterProcessingAlwaysConfirm(r, d, shown, failed) ==
    [session |-> [r.session EXCEPT !.current_step = "confirm"],
     disk    |-> cleanup_temp_files(d, r.session),
     page    |-> {},
     failed  |-> failed \cup r.raised]

\* the run after process_documents ended as r, d being the files on disk and
\* shown the messages of the run so far.  Nothing raised: current_step becomes
\* 'confirm' and st.experimental_rerun() starts the script again, whose run
\* shows the confirm page and ends with cleanup_temp_files().  Something
\* raised: the handler shows the error and calls cleanup_temp_files(), and so
\* does the end of main().
AfterProcessing(r, d, shown, failed) ==
    IF r.raised = {}
    THEN [session |-> [r.session EXCEPT !.current_step = "confirm"],
          disk    |-> cleanup_temp_files(d, r.session),
          page    |-> {},
          failed  |-> failed]
    ELSE [session |-> r.session,
          disk    |-> cleanup_temp_files(cleanup_temp_files(d, r.session), r.session),
          page    |-> shown \cup {"Error processing documents"},
          failed  |-> failed \cup r.raised]

\* the try block once the CV is saved as cv_temp_path and the job description
\* as jd (a record of save_uploadedfile)
SavedBoth(s, d, cv, cv_temp_path, jd, saved_jd) ==
    AfterProcessing(
        process_documents(Recorded(Recorded(s, cv_temp_path), saved_jd.path),
                          cv, saved_jd.path, jd),
        d \cup ({cv_temp_path, saved_jd.path} \ {None}),
        saved_jd.shown,
        IF jd = "unsaved" THEN {"jd_save"} ELSE {})

\* the run of the upload page with "Process Documents" pressed
UploadRun(s, d, cv, cv_saves, jd) ==
    IF ~cv_saves
    THEN [session |-> s,
          disk    |-> cleanup_temp_files(d, s),
          page    |-> save_uploadedfile(TRUE, FALSE, None).shown,
          failed  |-> {"cv_save"}]
    ELSE SavedBoth(s, d, cv, save_uploadedfile(TRUE, TRUE, Len(s.temp_files) + 1).path,
                   jd, save_uploadedfile(jd # "none", jd # "unsaved",
                                         Len(s.temp_files) + 2))

\* the variables after a run that ended as the record run
Ran(op, run, accepted) ==
    /\ session' = run.session
    /\ disk' = run.disk
    /\ page' = run.page
    /\ last' = [op |-> op, failed |-> run.failed, accepted |-> accepted]
    /\ UNCHANGED <<extracted_text, parsed_data, pc, file, file_ext, built, exc, outcome,
                   invoked, hist, sample, result>>

\* "Process Documents" is pressed on the upload page
ProcessDocuments(w, cv, cv_saves, jd) ==
    /\ session.current_step = "upload"
    /\ Len(session.temp_files) + 2 <= MaxTempFiles
    /\ Ran("process", UploadRun(Sidebar(session, w), disk, cv, cv_saves, jd), FALSE)

\* what the page of the step of s shows in a run with no button pressed: at
\* the interview step st.session_state.questions[st.session_state.current_question]
Shows(s) ==
    IF s.current_step = "interview" /\ s.questions # <<>>
    THEN IF s.current_question < Len(s.questions) THEN {"question"} ELSE {"IndexError"}
    ELSE {}

\* a widget of the sidebar is changed: the script runs with no button pressed
Rerun(w) ==
    /\ session' = Sidebar(session, w)
    /\ disk' = cleanup_temp_files(disk, session)
    /\ page' = Shows(session)
    /\ last' = [op |-> "rerun", failed |-> {}, accepted |-> FALSE]
    /\ UNCHANGED <<extracted_text, parsed_data, pc, file, file_ext, built, exc, outcome,
                   invoked, hist, sample, result>>


----------------------------------------------------------------------------
(* C13 *)

\* the last run pressed "Process Documents" and something in it raised
UploadFailed == last.op = "process" /\ last.failed # {}

\* the page shows an error, no recorded temporary file is left on disk, and
\* the session is still at the upload step
HandledAtUpload ==
    /\ page \cap {"Error saving file", "Error processing documents"} # {}
    /\ TempFiles(session) \cap disk = {}
    /\ session.current_step = "upload"

\* C13: when saving or parsing the uploaded CV or job description raises in
\* the upload step, the run shows the error, deletes every temporary file
\* recorded in temp_files, and leaves current_step at 'upload'.
C13_FailedUploadStaysAtUpload == UploadFailed => HandledAtUpload

\* the same for the failures other than that of saving the job description:
\* saving the CV, parsing the CV, parsing the job description
FailedParseStaysAtUpload ==
    (UploadFailed /\ "jd_save" \notin last.failed) => HandledAtUpload


----------------------------------------------------------------------------
(* question_generator.py: generate_questions on what the model answers *)

\* the index of the first sep in s, 0 when s holds none
Find(s, sep) ==
    IF \E i \in 1..Len(s) : s[i] = sep
    THEN CHOOSE i \in 1..Len(s) : s[i] = sep /\ \A j \in 1..(i - 1) : s[j] # sep
    ELSE 0

RECURSIVE StrSplit(_, _)

StrSplitAt(s, sep, i) ==
    IF i = 0 THEN <<s>>
    ELSE <<SubSeq(s, 1, i - 1)>> \o StrSplit(SubSeq(s, i + 1, Len(s)), sep)

\* str.split(sep) with a separator of one character
StrSplit(s, sep) == StrSplitAt(s, sep, Find(s, sep))

\* any(line.startswith(str(i)) for i in range(1, 6))
Numbered(line) == line # <<>> /\ line[1] \in {"1", "2", "3", "4", "5"}

QuestionOfAt(line, dot) ==
    IF dot # 0 THEN Strip(SubSeq(line, dot + 1, Len(line))) ELSE line

\* question = line.split('.', 1)[1].strip() if '.' in line else line
QuestionOf(line) == QuestionOfAt(line, Find(line, "."))

\* the body of the loop on a stripped line
KeptLine(line) ==
    IF line # <<>> /\ Numbered(line) THEN <<QuestionOf(line)>> ELSE <<>>

\* for line in response.text.strip().split('\n'): line = line.strip() ...
RECURSIVE QuestionsOfLines(_)
QuestionsOfLines(lines) ==
    IF lines = <<>> THEN <<>>
    ELSE KeptLine(Strip(Head(lines))) \o QuestionsOfLines(Tail(lines))

\* questions[:5]
FirstFive(questions) ==
    SubSeq(questions, 1, IF Len(questions) < 5 THEN Len(questions) ELSE 5)

\* _generate_with_gemini returning every parsed line: `return questions`
_generate_with_gemini_untruncated(response) ==
    IF response.raises THEN <<>>
    ELSE QuestionsOfLines(StrSplit(Strip(response.text), NL))

\* _generate_with_gemini on the response of self.model.generate_content:
\* what they raise is caught, an error is shown and [] returned
_generate_with_gemini(response) ==
    IF response.raises THEN <<>>
    ELSE FirstFive(QuestionsOfLines(StrSplit(Strip(response.text), NL)))

\* str(n) of a number of one digit
DecimalDigit(n) == <<"0", "1", "2", "3", "4", "5", "6", "7", "8", "9">>[n + 1]

\* f"Default {question_type} question #{len(questions) + 1}"
PaddingQuestion(question_type, questions) ==
    <<"D","e","f","a","u","l","t"," ">> \o question_type \o <<" ","q","u","e","s","t","i","o","n"," ","#">>
        \o <<DecimalDigit(Len(questions) + 1)>>

\* while len(questions) < 5: questions.append(...)
RECURSIVE Padded(_, _)
Padded(questions, question_type) ==
    IF Len(questions) < 5
    THEN Padded(Append(questions, PaddingQuestion(question_type, questions)),
                question_type)
    ELSE questions

\* the handler: [f"Default {question_type} question {i + 1}" for i in range(5)]
FallbackQuestions(question_type) ==
    [k \in 1..5 |->
        <<"D","e","f","a","u","l","t"," ">> \o question_type \o <<" ","q","u","e","s","t","i","o","n"," ">>
            \o <<DecimalDigit((k - 1) + 1)>>]

\* if question_type.lower() == "competency based": question_type = "competency_based"
Converted(question_type) ==
    IF StrLower(question_type) = <<"c","o","m","p","e","t","e","n","c","y"," ","b","a","s","e","d">>
    THEN <<"c","o","m","p","e","t","e","n","c","y","_","b","a","s","e","d">>
    ELSE question_type

\* the values of the enum QuestionType
QuestionTypeValues ==
    {<<"t","e","c","h","n","i","c","a","l">>,
     <<"b","e","h","a","v","i","o","r","a","l">>,
     <<"c","o","m","p","e","t","e","n","c","y","_","b","a","s","e","d">>,
     <<"g","e","n","e","r","a","l">>}

\* the values of the members that are keys of self.type_prompts
PromptedValues ==
    {<<"t","e","c","h","n","i","c","a","l">>,
     <<"b","e","h","a","v","i","o","r","a","l">>,
     <<"c","o","m","p","e","t","e","n","c","y","_","b","a","s","e","d">>}

\* the try block after the conversion: QuestionType(question_type.lower())
\* raises ValueError on a value of no member, self.type_prompts[q_type] raises
\* KeyError on GENERAL, and the handler returns the five default questions
GeneratedAs(question_type, response) ==
    IF StrLower(question_type) \notin QuestionTypeValues
    THEN FallbackQuestions(question_type)
    ELSE IF StrLower(question_type) \notin PromptedValues
    THEN FallbackQuestions(question_type)
    ELSE Padded(_generate_with_gemini(response), question_type)

generate_questions(question_type, response) ==
    GeneratedAs(Converted(question_type), response)

\* how many lines the answer of the model has at most
NumLines == 6

\* the question types generate_questions is called with: the three options of
\* the selectbox, the member without a prompt, and a value of no member
QuestionTypes ==
    {<<"C","o","m","p","e","t","e","n","c","y"," ","B","a","s","e","d">>,
     <<"B","e","h","a","v","i","o","r","a","l">>,
     <<"T","e","c","h","n","i","c","a","l">>,
     <<"g","e","n","e","r","a","l">>,
     <<"b","o","g","u","s">>}

\* the lines of an answer: numbered with a dot, numbered without a dot and in
\* blanks, not numbered
LineKinds == {"numbered", "undotted", "plain"}

LineOf(kind) ==
    CASE kind = "numbered" -> <<"1","."," ","A">>
      [] kind = "undotted" -> <<" ","2","B"," ">>
      [] kind = "plain"    -> <<"Q","?">>

\* response.text of an answer with lines of these kinds
ResponseText(kinds) == Join(<<NL>>, [i \in 1..Len(kinds) |-> LineOf(kinds[i])])

\* a call: the question type, whether the model raises, the lines it answers
QuestionSamples ==
    {s \in [question_type : QuestionTypes,
            raises        : BOOLEAN,
            kinds         : UNION {[1..n -> LineKinds] : n \in 0..NumLines}] :
        s.raises => s.kinds = <<>>}

ResponseOf(s) == [raises |-> s.raises, text |-> ResponseText(s.kinds)]

QuestionsInit ==
    /\ AppIdle
    /\ extracted_text = <<>>
    /\ parsed_data = EmptyDict
    /\ pc = [c \in Callers |-> "idle"]
    /\ file = [c \in Callers |-> NoFile]
    /\ file_ext = [c \in Callers |-> <<>>]
    /\ built = [c \in Callers |-> EmptyDict]
    /\ exc = [c \in Callers |-> NoExc]
    /\ outcome = [c \in Callers |-> NoOutcome]
    /\ invoked = [c \in Callers |-> {}]
    /\ hist = <<>>
    /\ sample \in QuestionSamples
    /\ result = NoResult

\* generate_questions is called with the question type and the model of the
\* sample
ApplyQuestions ==
    /\ ~result.done
    /\ result' = [done |-> TRUE,
                  questions |-> generate_questions(sample.question_type,
                                                   ResponseOf(sample))]
    /\ UNCHANGED <<extracted_text, parsed_data, pc, file, file_ext, built, exc, outcome,
                   invoked, hist, sample, app>>

QuestionsNext == ApplyQuestions

QuestionsSpec == QuestionsInit /\ [][QuestionsNext]_vars

----------------------------------------------------------------------------
(* C14 *)

\* the question each kind of line stands for, none for a line that is skipped
ExpectedOf(kind) ==
    CASE kind = "numbered" -> <<<<"A">>>>
      [] kind = "undotted" -> <<<<"2", "B">>>>
      [] kind = "plain"    -> <<>>

RECURSIVE ExpectedQuestions(_)
ExpectedQuestions(kinds) ==
    IF kinds = <<>> THEN <<>>
    ELSE ExpectedOf(Head(kinds)) \o ExpectedQuestions(Tail(kinds))

\* a default question: "Default ", the type, " question " and a number
IsDefault(q) == Len(q) > 8 /\ SubSeq(q, 1, 8) = <<"D","e","f","a","u","l","t"," ">>

\* the call fails: the type is none of the three with a prompt, or the model
\* raises
Fails(s) ==
    \/ s.raises
    \/ s.question_type \notin {<<"C","o","m","p","e","t","e","n","c","y"," ","B","a","s","e","d">>,
                               <<"B","e","h","a","v","i","o","r","a","l">>,
                               <<"T","e","c","h","n","i","c","a","l">>}

\* the questions are the first parsed ones, at most five, then defaults
ParsedThenDefaults(questions, parsed) ==
    \A i \in 1..Len(questions) :
        IF i <= Len(parsed) THEN questions[i] = parsed[i] ELSE IsDefault(questions[i])

\* C14: generate_questions returns exactly 5 questions for every question type
\* and whatever the model does: more than 5 parsed lines are cut to the first
\* 5, fewer are padded with default questions, and a failure (unknown type,
\* type without a prompt, error of the model) gives 5 default questions.
C14_AlwaysFiveQuestions ==
    result.done =>
        /\ Len(result.questions) = 5
        /\ IF Fails(sample)
           THEN \A i \in 1..5 : IsDefault(result.questions[i])
           ELSE ParsedThenDefaults(result.questions, ExpectedQuestions(sample.kinds))

\* the model answered six numbered lines to a type with a prompt
C14_Witness ==
    /\ result.done
    /\ ~Fails(sample)
    /\ Len(ExpectedQuestions(sample.kinds)) > 5
    /\ Len(result.questions) = 5


----------------------------------------------------------------------------
(* app.py: the confirm, interview and summary steps *)

\* what the model answers when "Start Interview" is pressed
Responses ==
    {[raises |-> TRUE, text |-> <<>>],
     [raises |-> FALSE, text |-> ResponseText(<<"numbered", "undotted">>)],
     [raises |-> FALSE,
      text |-> ResponseText(<<"numbered", "numbered", "numbered", "numbered",
                              "numbered", "numbered">>)]}

\* the run of the confirm page with "Start Interview" pressed, questions being
\* what generate_questions returned.  `if questions:` stores them, moves to
\* 'interview', and st.experimental_rerun() starts the script again, whose run
\* shows the first question and ends with cleanup_temp_files()
ConfirmRun(s, d, questions) ==
    IF questions # <<>>
    THEN [session |-> [s EXCEPT !.questions = questions, !.current_step = "interview"],
          disk    |-> cleanup_temp_files(d, s),
          page    |-> Shows([s EXCEPT !.questions = questions,
                                      !.current_step = "interview"]),
          failed  |-> {}]
    ELSE [session |-> s,
          disk    |-> cleanup_temp_files(d, s),
          page    |-> {"Failed to generate interview questions"},
          failed  |-> {}]

\* "Start Interview" is pressed on the confirm page
StartInterview(w, response) ==
    /\ session.current_step = "confirm"
    /\ Ran("start",
           ConfirmRun(Sidebar(session, w), disk,
                      generate_questions(w.interview_type, response)),
           FALSE)

\* the answers typed into the text area
Answers == {<<>>, <<"H", "i">>}

\* the placeholder feedback of an answer, its values in hundredths
Feedback ==
    [clarity |-> 80, relevance |-> 85, confidence |-> 75,
     feedback |-> "Good response! Consider providing more specific examples."]

\* `if user_response:` with an answer that moves to 'summary' only when the
\* session is already past the last question:
\* `if st.session_state.current_question > len(st.session_state.questions)`
AcceptedLateSummary(s, user_response) ==
    [s EXCEPT
        !.responses = Append(@, [question |-> s.questions[s.current_question + 1],
                                 response |-> user_response]),
        !.feedback = (s.current_question :> Feedback) @@ @,
        !.current_question = @ + 1,
        !.interview_progress = [num |-> s.current_question + 1,
                                den |-> Len(s.questions)],
        !.current_step = IF s.current_question + 1 > Len(s.questions)
                         THEN "summary" ELSE @]

\* `if user_response:` the session after the answer is saved
Accepted(s, user_response) ==
    [s EXCEPT
        !.responses = Append(@, [question |-> s.questions[s.current_question + 1],
                                 response |-> user_response]),
        !.feedback = (s.current_question :> Feedback) @@ @,
        !.current_question = @ + 1,
        !.interview_progress = [num |-> s.current_question + 1,
                                den |-> Len(s.questions)],
        !.current_step = IF s.current_question + 1 >= Len(s.questions)
                         THEN "summary" ELSE @]

\* the run of the interview page with "Submit Answer" pressed.  An answer is
\* saved and main() is called from inside main(): its st.set_page_config is
\* the second of the run and raises, so the run ends there, before
\* cleanup_temp_files(), with the exception on the page.  With no answer the
\* warning is shown under the question.
InterviewRun(s, d, user_response) ==
    IF user_response # <<>>
    THEN [session |-> Accepted(s, user_response),
          disk    |-> d,
          page    |-> {"StreamlitAPIException"},
          failed  |-> {}]
    ELSE [session |-> s,
          disk    |-> cleanup_temp_files(d, s),
          page    |-> Shows(s) \cup {"Please provide an answer before proceeding."},
          failed  |-> {}]

\* "Submit Answer" is pressed under the question on the page
SubmitAnswer(w, user_response) ==
    /\ session.current_step = "interview"
    /\ session.questions # <<>>
    /\ session.current_question < Len(session.questions)
    /\ Ran("submit", InterviewRun(Sidebar(session, w), disk, user_response),
           user_response # <<>>)

\* "Restart" is pressed on the summary page, which shows the button when
\* st.session_state.feedback is not empty: on_click clears the session state,
\* and the run that follows initializes it again and shows the upload page
Restart(w) ==
    /\ session.current_step = "summary"
    /\ session.feedback # EmptyDict
    /\ Ran("restart",
           [session |-> Sidebar(InitialSession, w),
            disk    |-> cleanup_temp_files(disk, InitialSession),
            page    |-> {},
            failed  |-> {}],
           FALSE)

AppNext ==
    \/ \E w \in Widgets, cv \in CvUploads, cv_saves \in BOOLEAN, jd \in JdUploads :
           ProcessDocuments(w, cv, cv_saves, jd)
    \/ \E w \in Widgets, response \in Responses : StartInterview(w, response)
    \/ \E w \in Widgets, user_response \in Answers : SubmitAnswer(w, user_response)
    \/ \E w \in Widgets : Restart(w)
    \/ \E w \in Widgets : Rerun(w)

AppSpec == Init /\ [][AppNext]_vars


----------------------------------------------------------------------------
(* C15 *)

\* the last run pressed "Submit Answer" with an answer, or with none
AnswerAccepted == last.op = "submit" /\ last.accepted

\* at the interview step with questions, current_question is the index of one
InterviewIndexInRange ==
    (session.current_step = "interview" /\ session.questions # <<>>) =>
        /\ 0 <= session.current_question
        /\ session.current_question < Len(session.questions)

\* after an accepted answer the three counts agree, and the session is at
\* 'summary' exactly when current_question has reached len(questions)
CountsAgree ==
    AnswerAccepted =>
        /\ session.current_question = Len(session.responses)
        /\ session.current_question = Cardinality(DOMAIN session.feedback)
        /\ session.current_step \in {"interview", "summary"}
        /\ session.current_step = "summary" <=>
               session.current_question = Len(session.questions)

\* a run that submits an empty answer changes none of them
EmptyAnswerChangesNothing ==
    (last'.op = "submit" /\ ~last'.accepted) =>
        /\ session'.current_question = session.current_question
        /\ session'.responses = session.responses
        /\ session'.feedback = session.feedback
        /\ session'.current_step = session.current_step

\* C15: whenever the session is at 'interview' and a question is displayed,
\* 0 <= current_question < len(questions); after each accepted (non-empty)
\* answer current_question, len(responses) and the number of feedback entries
\* are equal, and current_step is 'summary' exactly when current_question has
\* reached len(questions); submitting an empty answer changes none of these.
C15_InterviewCountersInStep ==
    /\ [](InterviewIndexInRange /\ CountsAgree)
    /\ [][EmptyAnswerChangesNothing]_vars

\* the last question was answered, after an empty answer was refused earlier
\* in the interview or not: the session is at 'summary' with every answer kept
C15_Witness ==
    /\ AnswerAccepted
    /\ session.current_step = "summary"
    /\ session.current_question = 5
    /\ Len(session.responses) = 5

----------------------------------------------------------------------------
(* C16 *)

\* a successful parse of the CV in the run of "Process Documents"
ParsedInRun(l, s) ==
    /\ l.op = "process"
    /\ l.failed \cap {"cv_save", "cv_parse", "jd_parse"} = {}
    /\ "cv_data" \in DOMAIN s.interview_data

\* the session as initialize_session_state leaves it, but for the stack the
\* sidebar of the same run may store
ClearedToUpload(s) ==
    /\ [s EXCEPT !.interview_data = EmptyDict] = InitialSession
    /\ DOMAIN s.interview_data \subseteq {"technical_stack"}

\* current_step changes in one of four ways
StepMoves ==
    session'.current_step # session.current_step =>
        \/ /\ session.current_step = "upload"
           /\ session'.current_step = "confirm"
           /\ ParsedInRun(last', session')
        \/ /\ session.current_step = "confirm"
           /\ session'.current_step = "interview"
           /\ last'.op = "start"
           /\ session'.questions # <<>>
        \/ /\ session.current_step = "interview"
           /\ session'.current_step = "summary"
           /\ last'.op = "submit"
           /\ Len(session'.responses) = Len(session'.questions)
           /\ session'.current_question = Len(session'.questions)
        \/ /\ session.current_step = "summary"
           /\ session'.current_step = "upload"
           /\ last'.op = "restart"
           /\ ClearedToUpload(session')

\* C16: within a session current_step only moves forward along upload ->
\* confirm -> interview -> summary, one step at a time: to 'confirm' only
\* after a successful parse of the CV, to 'interview' only after questions
\* were stored, to 'summary' only after every question was answered; no step
\* is skipped or revisited except by Restart, which clears the whole session
\* back to 'upload'.
C16_StepsOnlyForward == [][StepMoves]_vars

\* a session went through the four steps and was restarted
C16_Witness ==
    /\ last.op = "restart"
    /\ session.current_step = "upload"
    /\ session.questions = <<>>

=============================================================================
